---- MODULE Spec2Model ----
(***************************************************************************)
(* SortAggExecutor (src/batch/src/executor/sort_agg.rs): the sort          *)
(* aggregate over a stream of chunks sorted by the group key.  The         *)
(* generator do_execute is modelled as a state machine with one action per *)
(* stretch of code between two points where it can be suspended or where   *)
(* its loop turns: the consumer's poll, the prologue, the pull of a child  *)
(* chunk with key evaluation and group detection, one turn of the loop     *)
(* over the group boundaries, the resumption after a yield, the trailing   *)
(* update of a chunk, the final flush and the end of the stream.           *)
(*                                                                         *)
(* Every variable is a function of the executor instance, so that two      *)
(* executions can be run side by side.                                     *)
(***************************************************************************)
EXTENDS Integers, Sequences, FiniteSets, TLC

\* ------------------------------------------------------------------ bounds
\* rows of a generated input stream, over all its chunks
MaxRows == 3
\* chunks of a generated input stream
MaxChunks == 2
\* output_size_limit ranges over 1..MaxLimit
MaxLimit == 2
\* rows and chunks of the streams of the paired executions (SpecPair)
MaxPairRows == 2
MaxPairChunks == 2

\* values of a key column
KeyDomain == {1, 2}
\* executor instances
Insts == {1, 2}

\* ------------------------------------------------------- values and chunks
\* Option<T>: None is the empty sequence, Some(x) the one-element sequence.
None == <<>>
Some(x) == <<x>>

RECURSIVE Pow2(_)
Pow2(n) == IF n = 0 THEN 1 ELSE 2 * Pow2(n - 1)

RECURSIVE SetToSortedSeq(_)
\* the ascending sequence of a finite set of integers
SetToSortedSeq(S) ==
    IF S = {} THEN <<>>
    ELSE LET m == CHOOSE x \in S : \A y \in S : x <= y
         IN <<m>> \o SetToSortedSeq(S \ {m})

\* A DataChunk is [rows, vis]: its rows (tuples of column values, column c of
\* the source at position c + 1) and its visibility bitmap.
DataChunk(rows, vis) == [rows |-> rows, vis |-> vis]
AllVisible(rows) == DataChunk(rows, [r \in 1..Len(rows) |-> TRUE])

RECURSIVE VisibleRows(_, _)
VisibleRows(rows, vis) ==
    IF rows = <<>> THEN <<>>
    ELSE (IF Head(vis) THEN <<Head(rows)>> ELSE <<>>)
         \o VisibleRows(Tail(rows), Tail(vis))

\* DataChunk::compact: the visible rows only, all visible.
compact(chunk) == AllVisible(VisibleRows(chunk.rows, chunk.vis))

\* DataChunk::cardinality: the number of visible rows.
cardinality(chunk) == Len(VisibleRows(chunk.rows, chunk.vis))

\* BoxedExpression::eval of an input reference $idx: the column of the chunk.
eval(idx, chunk) == [r \in 1..Len(chunk.rows) |-> chunk.rows[r][idx + 1]]

\* --------------------------------------------------------- sorted grouper
\* A grouper carries the last seen value of its key column.
NewGrouper == [ongoing |-> FALSE, group_value |-> None]

\* a faulty variant: the groupers start as if a group with a NULL key were open
create_sorted_groupers_seeded(gk) ==
    [j \in 1..Len(gk) |-> [ongoing |-> TRUE, group_value |-> None]]

\* create_sorted_grouper, one per key expression
create_sorted_groupers(gk) == [j \in 1..Len(gk) |-> NewGrouper]

\* SortedGrouper::detect_groups: the row indices (from 0) whose value differs
\* from the row before; row 0 is compared with the carried value, and is no
\* boundary when nothing is carried.  Reads the grouper, changes nothing.
detect_groups(grouper, array) ==
    LET prev(r) == IF r = 0
                   THEN (IF grouper.ongoing THEN grouper.group_value
                                            ELSE Some(array[1]))
                   ELSE Some(array[r])
    IN SetToSortedSeq({r \in 0..(Len(array) - 1) : prev(r) # Some(array[r + 1])})

\* EqGroups::intersect: the ascending, duplicate-free union of the columns'
\* boundary lists; empty when there is no key column.
intersect(lists) ==
    SetToSortedSeq(UNION {{l[k] : k \in 1..Len(l)} : l \in {lists[j] : j \in 1..Len(lists)}})

\* SortedGrouper::update over rows [start, end): carries the value of row end - 1.
grouper_update(grouper, array, start_row, end_row) ==
    [ongoing |-> TRUE, group_value |-> Some(array[end_row])]

\* SortedGrouper::output: appends the carried value to the builder.
grouper_output(grouper, builder) == Append(builder, grouper.group_value)

\* -------------------------------------------------------------- aggregates
\* An aggregate state: its kind ("count" is COUNT(*), "sum" is SUM($arg)) and
\* its running result; count starts at Some(0), sum at None.
InitialResult(kind) == IF kind = "count" THEN Some(0) ELSE None
NewAgg(kind, arg) == [kind |-> kind, arg |-> arg, result |-> InitialResult(kind)]

RECURSIVE SumRange(_, _, _, _)
\* the fold of column arg over rows start+1 .. end (from 1) onto acc
SumRange(acc, rows, start_row, end_row) ==
    IF start_row >= end_row THEN acc
    ELSE SumRange(Some((IF acc = None THEN 0 ELSE acc[1]) + rows[start_row + 1]),
                  rows, start_row + 1, end_row)

\* AggState::update_multi: folds rows [start, end) of the chunk into the state.
update_multi(state, chunk, start_row, end_row) ==
    IF state.kind = "count"
    THEN [state EXCEPT !.result = Some(@[1] + (end_row - start_row))]
    ELSE [state EXCEPT !.result =
              SumRange(@, eval(state.arg, chunk), start_row, end_row)]

\* AggState::output: appends the result to the builder; the state starts over
\* (the expected values of the tests of sort_agg.rs are per group).
agg_output_value(state) == state.result
\* a faulty variant: the state keeps its result after the output
agg_output_state_keep(state) == state

agg_output_state(state) == [state EXCEPT !.result = InitialResult(state.kind)]

\* ------------------------------------------------- helpers of the executor
\* a faulty variant: the groupers are not told about the rows consumed
update_sorted_groupers_stale(groupers, columns, start_row, end_row) == groupers

\* a faulty variant: the groupers carry the value of the row after the range
update_sorted_groupers_next(groupers, columns, start_row, end_row) ==
    [j \in 1..Len(groupers) |->
        grouper_update(groupers[j], columns[j], start_row,
                       IF end_row < Len(columns[j]) THEN end_row + 1 ELSE end_row)]

update_sorted_groupers(groupers, columns, start_row, end_row) ==
    [j \in 1..Len(groupers) |->
        grouper_update(groupers[j], columns[j], start_row, end_row)]

\* the groupers when the update of grouper k fails: try_for_each stops at the
\* first Err, after the groupers before it were updated
update_sorted_groupers_err(groupers, columns, start_row, end_row, k) ==
    [j \in 1..Len(groupers) |->
        IF j < k THEN grouper_update(groupers[j], columns[j], start_row, end_row)
        ELSE groupers[j]]

\* a faulty variant: the last row of the range is left out of the fold
update_agg_states_short(states, chunk, start_row, end_row) ==
    [j \in 1..Len(states) |-> update_multi(states[j], chunk, start_row, end_row - 1)]

\* a faulty variant: every aggregate state after the first starts its fold
\* one row later than the state before it
update_agg_states_skew(states, chunk, start_row, end_row) ==
    [j \in 1..Len(states) |->
        update_multi(states[j], chunk,
                     IF start_row + j - 1 < end_row THEN start_row + j - 1 ELSE end_row,
                     end_row)]

\* a faulty variant: every fold starts at the first row of the chunk
update_agg_states_from_top(states, chunk, start_row, end_row) ==
    [j \in 1..Len(states) |-> update_multi(states[j], chunk, 0, end_row)]

update_agg_states(states, chunk, start_row, end_row) ==
    [j \in 1..Len(states) |-> update_multi(states[j], chunk, start_row, end_row)]

\* a faulty variant: the key of a closed group is put in front of the earlier ones
output_sorted_groupers_front(groupers, builders) ==
    [j \in 1..Len(groupers) |-> <<groupers[j].group_value>> \o builders[j]]

\* a faulty variant: a key value equal to the last one of its builder is not appended
output_sorted_groupers_dedup(groupers, builders) ==
    [j \in 1..Len(groupers) |->
        IF builders[j] # <<>> /\ builders[j][Len(builders[j])] = groupers[j].group_value
        THEN builders[j]
        ELSE grouper_output(groupers[j], builders[j])]

\* the group builders after one value of every grouper was appended
output_sorted_groupers(groupers, builders) ==
    [j \in 1..Len(groupers) |-> grouper_output(groupers[j], builders[j])]

\* a faulty variant: the states start over before their results are written
output_agg_states_late(states, builders) ==
    [states |-> [j \in 1..Len(states) |-> agg_output_state(states[j])],
     builders |-> [j \in 1..Len(states) |->
                      Append(builders[j], agg_output_value(agg_output_state(states[j])))]]

\* the group builders when the output of grouper k fails: try_for_each stops
\* at the first Err, after the groupers before it have appended their value
output_sorted_groupers_err(groupers, builders, k) ==
    [j \in 1..Len(groupers) |->
        IF j < k THEN grouper_output(groupers[j], builders[j]) ELSE builders[j]]

\* the aggregate states and builders when the output of state k fails:
\* try_for_each stops at the first Err, after the states before it have
\* written their result
output_agg_states_err(states, builders, k) ==
    [states |-> [j \in 1..Len(states) |->
                    IF j < k THEN agg_output_state(states[j]) ELSE states[j]],
     builders |-> [j \in 1..Len(states) |->
                      IF j < k THEN Append(builders[j], agg_output_value(states[j]))
                      ELSE builders[j]]]

\* the aggregate states and builders after every state wrote its result
output_agg_states(states, builders) ==
    [states |-> [j \in 1..Len(states) |-> agg_output_state(states[j])],
     builders |-> [j \in 1..Len(states) |->
                      Append(builders[j], agg_output_value(states[j]))]]

create_builders(gk, states) ==
    [group |-> [j \in 1..Len(gk) |-> <<>>], agg |-> [j \in 1..Len(states) |-> <<>>]]

\* a faulty variant: only the first key column is asked for boundaries
detect_all_first_key(groupers, columns) ==
    IF groupers = <<>> THEN <<>> ELSE detect_groups(groupers[1], columns[1])

\* a faulty variant: the first row of every chunk starts a group
detect_all_chunk_start(groupers, columns) ==
    LET own == intersect([j \in 1..Len(groupers) |->
                             detect_groups(groupers[j], columns[j])])
    IN SetToSortedSeq({0} \cup {own[k] : k \in 1..Len(own)})

\* a faulty variant: the boundary lists of the key columns are appended one
\* after the other
detect_all_appended(groupers, columns) ==
    LET RECURSIVE cat(_)
        cat(j) == IF j > Len(groupers) THEN <<>>
                  ELSE detect_groups(groupers[j], columns[j]) \o cat(j + 1)
    IN cat(1)

\* a faulty variant: the input is taken to be sorted ascending, a row is a
\* boundary only where a key column's value rises
detect_all_rising(groupers, columns) ==
    intersect([j \in 1..Len(groupers) |->
        LET array == columns[j]
            prev(r) == IF r = 0
                       THEN (IF groupers[j].ongoing THEN groupers[j].group_value
                                                    ELSE Some(array[1]))
                       ELSE Some(array[r])
        IN SetToSortedSeq({r \in 0..(Len(array) - 1) : prev(r)[1] < array[r + 1]})])

\* sort_agg.rs 132-139: the boundary list of a chunk: detect_groups per key
\* column, intersected
detect_all(groupers, columns) ==
    intersect([j \in 1..Len(groupers) |-> detect_groups(groupers[j], columns[j])])

\* a faulty variant: the pulled chunk is processed as it came, with the rows
\* that are filtered out
compacted_as_pulled(chunk) == chunk

\* sort_agg.rs 122: the chunk the loop body works on is the pulled chunk,
\* compacted
compacted(chunk) == compact(chunk)

\* sort_agg.rs 126-130: the key columns of a chunk
eval_group_key(gk, chunk) == [j \in 1..Len(gk) |-> eval(gk[j], chunk)]

\* a faulty variant: any chunk, also one without rows, counts as input
next_no_input_data_any(flag, chunk) == FALSE

\* a faulty variant: the flag tells whether the chunk pulled last had no rows
next_no_input_data_last(flag, chunk) == cardinality(chunk) = 0

\* sort_agg.rs 123-125: the flag stays up until a chunk with rows arrives
next_no_input_data(flag, chunk) ==
    IF flag /\ cardinality(chunk) > 0 THEN FALSE ELSE flag

\* a faulty variant: a range of one row is not folded
need_update_strict(start_row, end_row) == start_row + 1 < end_row

\* sort_agg.rs 144, 183: rows are folded only over a non-empty range
need_update(start_row, end_row) == start_row < end_row

\* a faulty variant: the batch is yielded one row early
batch_full_early(capacity) == capacity <= 1

\* a faulty variant: the batch is yielded one emit after the capacity ran out
batch_full_late(capacity) == capacity < 0

\* sort_agg.rs 164: the batch is yielded when no capacity is left
batch_full(capacity) == capacity = 0

\* a faulty variant: a grouped aggregation never outputs its last group
suppress_output_grouped(flag, gk) == gk # <<>>

\* a faulty variant: an aggregation without key and without input yields nothing either
suppress_output_any_key(flag, gk) == flag

\* sort_agg.rs 198: a grouped aggregation without input yields nothing
suppress_output(flag, gk) == flag /\ gk # <<>>

\* a faulty variant: the row of the last group is not counted
final_cardinality_plain(limit, capacity) == limit - capacity

\* sort_agg.rs 210: the declared cardinality of the last batch
final_cardinality(limit, capacity) == limit - capacity + 1

\* ------------------------------------------------------- output elements
\* DataChunk::new(columns, cardinality) as yielded, and a yielded error
Batch(columns, card) == [ok |-> TRUE, columns |-> columns, card |-> card, err |-> ""]
ErrItem(kind) == [ok |-> FALSE, columns |-> <<>>, card |-> 0, err |-> kind]

\* the fault plan: which fallible call fails, while which item of the child
\* stream is being processed (the end of the stream counts as one more item)
NoFault == [at |-> 0, kind |-> "none"]
FaultKinds == {"child", "eval", "detect", "grouper_update", "agg_update",
               "grouper_output", "agg_output"}

\* ------------------------------------------------------------------ state
VARIABLES
    \* the fields of SortAggExecutor
    group_key, agg_states, sorted_groupers, child, output_size_limit,
    \* the locals of do_execute
    left_capacity, group_builders, agg_builders, no_input_data,
    child_chunk, group_columns, groups, start_row_idx,
    \* the number of aggregate states the running call of update_agg_states
    \* has updated
    agg_pos,
    \* where the generator stands, whether the consumer is inside next(),
    \* and the elements the stream has yielded
    pc, polled, out,
    \* the chunks pulled from the child so far, and the fault plan
    input, fault

vars == <<group_key, agg_states, sorted_groupers, child, output_size_limit,
          left_capacity, group_builders, agg_builders, no_input_data,
          child_chunk, group_columns, groups, start_row_idx, agg_pos,
          pc, polled, out, input, fault>>

fields == <<group_key, child, output_size_limit, fault>>
chunk_locals == <<child_chunk, group_columns, groups, start_row_idx, agg_pos>>
builder_locals == <<left_capacity, group_builders, agg_builders>>

EmptyChunk == AllVisible(<<>>)

\* An executor as constructed (new_boxed_executor, and the struct literals of
\* the tests): its key expressions, aggregate states, limit and child, with
\* the fault plan of the run.
Setup(gk, aggs, limit, stream, plan) ==
    [run |-> TRUE, gk |-> gk, aggs |-> aggs, limit |-> limit,
     stream |-> stream, plan |-> plan]

\* An instance that is not run.
IdleSetup ==
    [run |-> FALSE, gk |-> <<>>, aggs |-> <<>>, limit |-> 1,
     stream |-> <<>>, plan |-> NoFault]

\* The state after construction: one grouper per key expression; the
\* generator has not been polled and its locals do not exist yet.
InitWith(su) ==
    /\ group_key = [i \in Insts |-> su[i].gk]
    /\ agg_states = [i \in Insts |-> su[i].aggs]
    /\ sorted_groupers = [i \in Insts |-> create_sorted_groupers(su[i].gk)]
    /\ child = [i \in Insts |-> su[i].stream]
    /\ output_size_limit = [i \in Insts |-> su[i].limit]
    /\ fault = [i \in Insts |-> su[i].plan]
    /\ pc = [i \in Insts |-> IF su[i].run THEN "start" ELSE "idle"]
    /\ left_capacity = [i \in Insts |-> 0]
    /\ group_builders = [i \in Insts |-> <<>>]
    /\ agg_builders = [i \in Insts |-> <<>>]
    /\ no_input_data = [i \in Insts |-> TRUE]
    /\ child_chunk = [i \in Insts |-> EmptyChunk]
    /\ group_columns = [i \in Insts |-> <<>>]
    /\ groups = [i \in Insts |-> <<>>]
    /\ start_row_idx = [i \in Insts |-> 0]
    /\ agg_pos = [i \in Insts |-> 0]
    /\ polled = [i \in Insts |-> FALSE]
    /\ out = [i \in Insts |-> <<>>]
    /\ input = [i \in Insts |-> <<>>]

\* ----------------------------------------------------------------- inputs
\* The key expressions of the runs: none, $1, or $1 and $2 (as in the tests).
GroupKeys == {<<>>, <<1>>, <<1, 2>>}
\* COUNT(*) and SUM($0), side by side
CountSum == <<NewAgg("count", 0), NewAgg("sum", 0)>>

\* the key values of the rows: a column no key expression reads is held at 1
KeyTuples(gk) ==
    {<<k1, k2>> : k1 \in (IF Len(gk) >= 1 THEN KeyDomain ELSE {1}),
                  k2 \in (IF Len(gk) >= 2 THEN KeyDomain ELSE {1})}

\* The n rows ($0, $1, $2) with the key tuples ks: row p has the value
\* 2^(p-1) in column 0, so that a sum tells which rows were folded into it.
RowsWithKeys(ks) == [p \in 1..Len(ks) |-> <<Pow2(p - 1), ks[p][1], ks[p][2]>>]

\* the ways to cut n rows into m chunks, empty chunks included
Cuts(n, m) ==
    IF m = 0 THEN (IF n = 0 THEN {<<>>} ELSE {})
    ELSE {c \in [1..(m - 1) -> 0..n] : \A j \in 1..(m - 2) : c[j] <= c[j + 1]}

SubSeqOf(s, lo, hi) == [k \in 1..(hi - lo) |-> s[lo + k]]

\* rows (with their visibility) cut at c into m chunks
Split(rows, vis, c, m) ==
    [j \in 1..m |->
        LET lo == IF j = 1 THEN 0 ELSE c[j - 1]
            hi == IF j = m THEN Len(rows) ELSE c[j]
        IN DataChunk(SubSeqOf(rows, lo, hi), SubSeqOf(vis, lo, hi))]

AllTrue(n) == [r \in 1..n |-> TRUE]

\* the fault plans of a stream of at most max_chunks chunks
FaultPlans(max_chunks) ==
    {NoFault} \cup [at : 1..(max_chunks + 1), kind : FaultKinds]

Prefixes(s) == {SubSeqOf(s, 0, n) : n \in 0..Len(s)}

\* The inputs of the tests of sort_agg.rs.
TestChunksA ==  \* execute_count_star_int32, execute_sum_int32_grouped
    << AllVisible(<< <<1, 1, 7>>, <<2, 1, 8>>, <<3, 3, 8>>, <<4, 3, 9>> >>),
       AllVisible(<< <<1, 3, 9>>, <<2, 4, 9>>, <<3, 4, 9>>, <<4, 5, 9>> >>),
       AllVisible(<< <<1, 5, 9>>, <<2, 5, 9>>, <<3, 5, 9>>, <<4, 5, 9>> >>) >>
TestChunksB ==  \* execute_count_star_int32_grouped
    << AllVisible(<< <<1, 1, 7>>, <<2, 1, 8>>, <<3, 3, 8>>, <<4, 3, 9>>, <<5, 4, 9>> >>),
       AllVisible(<< <<1, 4, 9>>, <<2, 4, 9>>, <<3, 4, 9>>, <<4, 5, 9>>, <<5, 6, 9>>,
                     <<6, 7, 9>>, <<7, 7, 9>>, <<8, 8, 9>> >>),
       AllVisible(<< <<1, 8, 9>>, <<2, 8, 9>>, <<3, 8, 9>>, <<4, 8, 9>>, <<5, 8, 9>> >>) >>
TestChunksC ==  \* execute_sum_int32
    << AllVisible(<< <<1>>, <<2>>, <<3>>, <<4>>, <<5>>, <<6>>, <<7>>, <<8>>, <<9>>, <<10>> >>) >>
TestChunksD ==  \* execute_sum_int32_grouped_exceed_limit
    << AllVisible(<< <<1, 1, 7>>, <<2, 1, 8>>, <<3, 3, 8>>, <<4, 3, 8>>, <<5, 4, 9>>,
                     <<6, 4, 9>>, <<7, 5, 9>>, <<8, 5, 9>>, <<9, 6, 10>>, <<10, 6, 10>> >>),
       AllVisible(<< <<1, 6, 10>>, <<2, 7, 12>> >>) >>

CountStar == <<NewAgg("count", 0)>>
SumCol0 == <<NewAgg("sum", 0)>>

\* the executors of the tests, each over every prefix of its test's chunks
TestSetups ==
    {Setup(<<>>, CountStar, 3, s, NoFault) : s \in Prefixes(TestChunksA)}
    \cup {Setup(<<1, 2>>, CountStar, 3, s, NoFault) : s \in Prefixes(TestChunksB)}
    \cup {Setup(<<>>, SumCol0, 4, s, NoFault) : s \in Prefixes(TestChunksC)}
    \cup {Setup(<<1, 2>>, SumCol0, 4, s, NoFault) : s \in Prefixes(TestChunksA)}
    \cup {Setup(<<1, 2>>, SumCol0, 3, s, NoFault) : s \in Prefixes(TestChunksD)}

\* the instances of one execution: instance 1 runs, instance 2 does not
Single(e) == [i \in Insts |-> IF i = 1 THEN e ELSE IdleSetup]

\* One execution without faults of a generated executor: every key, limit
\* and stream of visible rows within the bounds.
InitGeneral ==
    \E gk \in GroupKeys, limit \in 1..MaxLimit, n \in 0..MaxRows, m \in 0..MaxChunks :
        \E ks \in [1..n -> KeyTuples(gk)], c \in Cuts(n, m) :
            InitWith(Single(Setup(gk, CountSum, limit,
                                  Split(RowsWithKeys(ks), AllTrue(n), c, m), NoFault)))

\* One execution of an executor of the tests.
InitTests == \E e \in TestSetups : InitWith(Single(e))

Init == InitGeneral \/ InitTests

\* One execution with rows that are filtered out: every row visible or not.
InitVis ==
    \E gk \in {<<>>, <<1>>}, limit \in 1..MaxLimit, n \in 0..MaxRows, m \in 0..MaxChunks :
        \E ks \in [1..n -> KeyTuples(gk)], vis \in [1..n -> BOOLEAN], c \in Cuts(n, m) :
            InitWith(Single(Setup(gk, CountSum, limit,
                                  Split(RowsWithKeys(ks), vis, c, m), NoFault)))

\* One execution in which one fallible call may fail, of an executor with
\* the two aggregates or, grouped, with none (the struct takes any list of
\* aggregate states).  An executor without aggregate states makes no
\* fallible call on one, so its plans name the other calls only; a plan
\* names an item the child has, or the end of its stream.
InitFaultGeneral ==
    \E su \in {<<<<>>, CountSum>>, <<<<1>>, CountSum>>, <<<<1>>, <<>>>>},
       limit \in 1..MaxLimit, n \in 0..MaxRows, m \in 0..MaxChunks :
        \E ks \in [1..n -> KeyTuples(su[1])], c \in Cuts(n, m),
           plan \in {p \in FaultPlans(m) :
                        su[2] = <<>> => p.kind \notin {"agg_update", "agg_output"}} :
            InitWith(Single(Setup(su[1], su[2], limit,
                                  Split(RowsWithKeys(ks), AllTrue(n), c, m), plan)))

\* One execution in which one fallible call may fail, of the executor of the
\* test execute_sum_int32_grouped, which has two groupers.
InitFaultTests ==
    \E s \in Prefixes(TestChunksA) :
        \E plan \in FaultPlans(Len(s)) :
            InitWith(Single(Setup(<<1, 2>>, SumCol0, 4, s, plan)))

InitFault == InitFaultGeneral \/ InitFaultTests

\* Two executions of the same rows with the same limit: instance 1 gets them
\* in a single chunk, instance 2 in any chunking, empty chunks included.
InitPair ==
    \E gk \in {<<>>, <<1>>}, limit \in 1..MaxLimit, n \in 0..MaxPairRows,
       m \in 0..MaxPairChunks :
        \E ks \in [1..n -> KeyTuples(gk)], c \in Cuts(n, m) :
            InitWith([i \in Insts |->
                IF i = 1
                THEN Setup(gk, CountSum, limit, <<AllVisible(RowsWithKeys(ks))>>, NoFault)
                ELSE Setup(gk, CountSum, limit,
                           Split(RowsWithKeys(ks), AllTrue(n), c, m), NoFault)])

\* ---------------------------------------------------------------- actions
\* the number of the item of the child stream being processed
ItemNo(i) == Len(input[i])
FaultHits(i, at, kinds) == fault[i].at = at /\ fault[i].kind \in kinds

\* a faulty variant: the rows held in the builders are yielded ahead of the error
Fail_flush(i) ==
    /\ pc' = [pc EXCEPT ![i] = "failed"]
    /\ out' = [out EXCEPT ![i] =
           (IF pc[i] = "start" THEN @
            ELSE Append(@, Batch(group_builders[i] \o agg_builders[i],
                                 output_size_limit[i] - left_capacity[i])))
           \o <<ErrItem(fault[i].kind)>>]
    /\ polled' = [polled EXCEPT ![i] = FALSE]

\* a faulty variant: the error takes the place of the batches yielded before it
Fail_retract(i) ==
    /\ pc' = [pc EXCEPT ![i] = "failed"]
    /\ out' = [out EXCEPT ![i] = <<ErrItem(fault[i].kind)>>]
    /\ polled' = [polled EXCEPT ![i] = FALSE]

\* An error leaves the generator: the stream yields it and is over.
Fail(i) ==
    /\ pc' = [pc EXCEPT ![i] = "failed"]
    /\ out' = [out EXCEPT ![i] = Append(@, ErrItem(fault[i].kind))]
    /\ polled' = [polled EXCEPT ![i] = FALSE]

\* The consumer calls next() on the stream.
Poll(i) ==
    /\ pc[i] \in {"start", "yielded", "final"}
    /\ ~polled[i]
    /\ polled' = [polled EXCEPT ![i] = TRUE]
    /\ UNCHANGED <<fields, agg_states, sorted_groupers, chunk_locals,
                   builder_locals, no_input_data, pc, out, input>>

\* a faulty variant: a stream that is dropped outputs its open group as a last batch
Drop_flush(i) ==
    /\ \/ pc[i] \in {"start", "yielded", "final"} /\ ~polled[i]
       \/ pc[i] \in {"pull", "eval", "update"}
    /\ pc' = [pc EXCEPT ![i] = "dropped"]
    /\ polled' = [polled EXCEPT ![i] = FALSE]
    /\ out' = [out EXCEPT ![i] =
           IF pc[i] = "pull"
           THEN Append(@, Batch(output_sorted_groupers(sorted_groupers[i], group_builders[i])
                                \o output_agg_states(agg_states[i], agg_builders[i]).builders,
                                final_cardinality(output_size_limit[i], left_capacity[i])))
           ELSE @]
    /\ UNCHANGED <<fields, agg_states, sorted_groupers, chunk_locals,
                   builder_locals, no_input_data, input>>

\* The consumer drops the stream while the generator is suspended: before a
\* poll, at a yield, or at one of its awaits: of the child's next chunk, of
\* the evaluation of a key expression, of the update of an aggregate state.
Drop(i) ==
    /\ \/ pc[i] \in {"start", "yielded", "final"} /\ ~polled[i]
       \/ pc[i] \in {"pull", "eval", "update"}
    /\ pc' = [pc EXCEPT ![i] = "dropped"]
    /\ polled' = [polled EXCEPT ![i] = FALSE]
    /\ UNCHANGED <<fields, agg_states, sorted_groupers, chunk_locals,
                   builder_locals, no_input_data, out, input>>

\* a faulty variant: the generator runs up to its first pull of the child
\* before the consumer has polled it
Start_eager(i) ==
    /\ pc[i] = "start"
    /\ left_capacity' = [left_capacity EXCEPT ![i] = output_size_limit[i]]
    /\ LET b == create_builders(group_key[i], agg_states[i])
       IN /\ group_builders' = [group_builders EXCEPT ![i] = b.group]
          /\ agg_builders' = [agg_builders EXCEPT ![i] = b.agg]
    /\ no_input_data' = [no_input_data EXCEPT ![i] = TRUE]
    /\ pc' = [pc EXCEPT ![i] = "pull"]
    /\ UNCHANGED <<fields, agg_states, sorted_groupers, chunk_locals,
                   polled, out, input>>

\* sort_agg.rs 115-118: the prologue, run by the first poll.
Start(i) ==
    /\ pc[i] = "start"
    /\ polled[i]
    /\ left_capacity' = [left_capacity EXCEPT ![i] = output_size_limit[i]]
    /\ LET b == create_builders(group_key[i], agg_states[i])
       IN /\ group_builders' = [group_builders EXCEPT ![i] = b.group]
          /\ agg_builders' = [agg_builders EXCEPT ![i] = b.agg]
    /\ no_input_data' = [no_input_data EXCEPT ![i] = TRUE]
    /\ pc' = [pc EXCEPT ![i] = "pull"]
    /\ UNCHANGED <<fields, agg_states, sorted_groupers, chunk_locals,
                   polled, out, input>>

\* sort_agg.rs 121-125: the child yields an item; the chunk is compacted and
\* the flag of the empty input updated. With key expressions the generator
\* goes on to their evaluation, which it awaits; without one it reaches the
\* boundary loop with no boundary detected.
NextChunk(i) ==
    /\ pc[i] = "pull"
    /\ polled[i]
    /\ child[i] # <<>>
    /\ IF FaultHits(i, ItemNo(i) + 1, {"child"})
       THEN /\ Fail(i)
            /\ UNCHANGED <<fields, agg_states, sorted_groupers, chunk_locals,
                           builder_locals, no_input_data, input>>
       ELSE LET c == compacted(Head(child[i]))
            IN /\ child' = [child EXCEPT ![i] = Tail(@)]
               /\ input' = [input EXCEPT ![i] = Append(@, Head(child[i]))]
               /\ no_input_data' = [no_input_data EXCEPT ![i] =
                      next_no_input_data(@, c)]
               /\ child_chunk' = [child_chunk EXCEPT ![i] = c]
               /\ group_columns' = [group_columns EXCEPT ![i] = <<>>]
               /\ IF group_key[i] # <<>>
                  THEN /\ pc' = [pc EXCEPT ![i] = "eval"]
                       /\ UNCHANGED <<groups, start_row_idx>>
                  ELSE /\ groups' = [groups EXCEPT ![i] =
                              detect_all(sorted_groupers[i], <<>>)]
                       /\ start_row_idx' = [start_row_idx EXCEPT ![i] = 0]
                       /\ pc' = [pc EXCEPT ![i] = "bound"]
               /\ UNCHANGED <<group_key, output_size_limit, fault, agg_states,
                              sorted_groupers, builder_locals, agg_pos, polled,
                              out>>

\* sort_agg.rs 126-141: the evaluation of one key expression, which the
\* generator awaits; after the last one the boundaries are detected and the
\* cursor starts at row 0. The call that fails is the evaluation of any one of
\* the expressions: the columns before it are pushed when the `?` ends the
\* stream.
Eval(i) ==
    /\ pc[i] = "eval"
    /\ IF FaultHits(i, ItemNo(i), {"eval"})
       THEN \* the evaluation of this expression fails, or that of a later one
            \/ /\ Fail(i)
               /\ UNCHANGED <<chunk_locals>>
            \/ /\ Len(group_columns[i]) + 1 < Len(group_key[i])
               /\ group_columns' = [group_columns EXCEPT ![i] =
                      SubSeq(eval_group_key(group_key[i], child_chunk[i]),
                             1, Len(@) + 1)]
               /\ UNCHANGED <<child_chunk, groups, start_row_idx, agg_pos, pc,
                              polled, out>>
       ELSE LET cols == SubSeq(eval_group_key(group_key[i], child_chunk[i]),
                               1, Len(group_columns[i]) + 1)
            IN /\ group_columns' = [group_columns EXCEPT ![i] = cols]
               /\ IF Len(cols) < Len(group_key[i])
                  THEN UNCHANGED <<groups, start_row_idx, pc, polled, out>>
                  ELSE IF FaultHits(i, ItemNo(i), {"detect"})
                  THEN /\ Fail(i)
                       /\ UNCHANGED <<groups, start_row_idx>>
                  ELSE /\ groups' = [groups EXCEPT ![i] =
                              detect_all(sorted_groupers[i], cols)]
                       /\ start_row_idx' = [start_row_idx EXCEPT ![i] = 0]
                       /\ pc' = [pc EXCEPT ![i] = "bound"]
                       /\ UNCHANGED <<polled, out>>
               /\ UNCHANGED <<child_chunk, agg_pos>>
    /\ UNCHANGED <<fields, agg_states, sorted_groupers, builder_locals,
                   no_input_data, input>>

\* which output call of one turn of the boundary loop the fault plan makes fail
OutputFault(i) ==
    \/ group_key[i] # <<>> /\ FaultHits(i, ItemNo(i), {"grouper_output"})
    \/ agg_states[i] # <<>> /\ FaultHits(i, ItemNo(i), {"agg_output"})

\* sort_agg.rs 159-160 and 201-202, one of the two output calls failing for
\* item `at`, with the groupers g1 and the aggregate states a1: a failing
\* output_sorted_groupers leaves the values of the groupers before the failing
\* one in their builders; a failing output_agg_states comes after every group
\* builder got its value, and leaves the results of the states before the
\* failing one in theirs. The `?` then ends the stream.
OutputFailed(i, g1, a1, at) ==
    /\ Fail(i)
    /\ IF group_key[i] # <<>> /\ FaultHits(i, at, {"grouper_output"})
       THEN \E k \in 1..Len(g1) :
               /\ group_builders' = [group_builders EXCEPT ![i] =
                      output_sorted_groupers_err(g1, @, k)]
               /\ agg_states' = [agg_states EXCEPT ![i] = a1]
               /\ UNCHANGED agg_builders
       ELSE \E k \in 1..Len(a1) :
               LET ae == output_agg_states_err(a1, agg_builders[i], k)
               IN /\ group_builders' = [group_builders EXCEPT ![i] =
                         output_sorted_groupers(g1, @)]
                  /\ agg_states' = [agg_states EXCEPT ![i] = ae.states]
                  /\ agg_builders' = [agg_builders EXCEPT ![i] = ae.builders]
    /\ UNCHANGED left_capacity

\* sort_agg.rs 159-180: the rest of a turn of the boundary loop, with the
\* groupers g1 and the aggregate states a1 as updated: the closed group is
\* output, the cursor moves to the boundary, the capacity is decremented and
\* the batch is yielded when it is full. left_capacity is a usize: a value
\* below zero stands for the value 2^64 above it, so -1 is usize::MAX.
Output(i, g1, a1) ==
    LET end_row_idx == Head(groups[i])
        gb == output_sorted_groupers(g1, group_builders[i])
        ao == output_agg_states(a1, agg_builders[i])
    IN IF OutputFault(i)
       THEN /\ OutputFailed(i, g1, a1, ItemNo(i))
            /\ sorted_groupers' = [sorted_groupers EXCEPT ![i] = g1]
            /\ UNCHANGED <<fields, chunk_locals, no_input_data, input>>
       ELSE /\ sorted_groupers' = [sorted_groupers EXCEPT ![i] = g1]
            /\ agg_states' = [agg_states EXCEPT ![i] = ao.states]
            /\ group_builders' = [group_builders EXCEPT ![i] = gb]
            /\ agg_builders' = [agg_builders EXCEPT ![i] = ao.builders]
            /\ start_row_idx' = [start_row_idx EXCEPT ![i] = end_row_idx]
            /\ groups' = [groups EXCEPT ![i] = Tail(@)]
            /\ IF left_capacity[i] = 0
               THEN \* `left_capacity -= 1` at zero: a build with overflow
                    \* checks panics, a build without wraps to usize::MAX
                    \/ /\ pc' = [pc EXCEPT ![i] = "panicked"]
                       /\ polled' = [polled EXCEPT ![i] = FALSE]
                       /\ UNCHANGED <<left_capacity, out>>
                    \/ /\ left_capacity' = [left_capacity EXCEPT ![i] = -1]
                       /\ pc' = [pc EXCEPT ![i] = "bound"]
                       /\ UNCHANGED <<out, polled>>
               ELSE LET cap == left_capacity[i] - 1
                    IN /\ left_capacity' = [left_capacity EXCEPT ![i] = cap]
                       /\ IF batch_full(cap)
                          THEN /\ out' = [out EXCEPT ![i] =
                                      Append(@, Batch(gb \o ao.builders,
                                                      output_size_limit[i]))]
                               /\ pc' = [pc EXCEPT ![i] = "yielded"]
                               /\ polled' = [polled EXCEPT ![i] = FALSE]
                          ELSE /\ pc' = [pc EXCEPT ![i] = "bound"]
                               /\ UNCHANGED <<out, polled>>
            /\ UNCHANGED <<fields, child_chunk, group_columns, agg_pos,
                           no_input_data, input>>

\* sort_agg.rs 145-157 and 184-191: the rows [start_row_idx, end_row) are
\* given to the groupers, the update of any one of which may fail after the
\* groupers before it were updated, and update_agg_states is
\* entered, which awaits the update of each aggregate state. Without an
\* aggregate state it awaits nothing and the generator runs on: to the output
\* of the closed group in a turn of the boundary loop, to the next pull after
\* the last boundary.
EnterUpdate(i, end_row) ==
    LET g1 == update_sorted_groupers(sorted_groupers[i], group_columns[i],
                                     start_row_idx[i], end_row)
    IN IF group_key[i] # <<>> /\ FaultHits(i, ItemNo(i), {"grouper_update"})
       THEN /\ Fail(i)
            /\ \E k \in 1..Len(sorted_groupers[i]) :
                   sorted_groupers' = [sorted_groupers EXCEPT ![i] =
                       update_sorted_groupers_err(@, group_columns[i],
                                                  start_row_idx[i], end_row, k)]
            /\ UNCHANGED <<fields, agg_states, chunk_locals, builder_locals,
                           no_input_data, input>>
       ELSE IF agg_states[i] # <<>>
       THEN /\ sorted_groupers' = [sorted_groupers EXCEPT ![i] = g1]
            /\ agg_pos' = [agg_pos EXCEPT ![i] = 0]
            /\ pc' = [pc EXCEPT ![i] = "update"]
            /\ UNCHANGED <<fields, agg_states, child_chunk, group_columns,
                           groups, start_row_idx, builder_locals, no_input_data,
                           polled, out, input>>
       ELSE IF groups[i] # <<>>
       THEN Output(i, g1, <<>>)
       ELSE /\ sorted_groupers' = [sorted_groupers EXCEPT ![i] = g1]
            /\ pc' = [pc EXCEPT ![i] = "pull"]
            /\ UNCHANGED <<fields, agg_states, chunk_locals, builder_locals,
                           no_input_data, polled, out, input>>

\* sort_agg.rs 142-173: a turn of `for i in groups.indices` begins. With rows
\* before the boundary the groupers and then the aggregate states are
\* updated; with none the closed group is output at once.
Boundary(i) ==
    /\ pc[i] = "bound"
    /\ groups[i] # <<>>
    /\ IF need_update(start_row_idx[i], Head(groups[i]))
       THEN EnterUpdate(i, Head(groups[i]))
       ELSE Output(i, sorted_groupers[i], agg_states[i])

\* sort_agg.rs 228-240: update_agg_states, called at 151-157 for the rows
\* before a boundary and at 190-191 for the rows after the last one: the
\* update of one aggregate state, which the generator awaits. After the last
\* state the turn goes on with the output of the closed group, or the chunk
\* is done. The call that fails is the update of any one of the states: the
\* states before it are updated when the `?` ends the stream.
UpdateAgg(i) ==
    /\ pc[i] = "update"
    /\ LET end_row == IF groups[i] # <<>> THEN Head(groups[i])
                      ELSE cardinality(child_chunk[i])
           k == agg_pos[i] + 1
           a1 == [agg_states[i] EXCEPT ![k] =
                     update_agg_states(agg_states[i], child_chunk[i],
                                       start_row_idx[i], end_row)[k]]
           failing == FaultHits(i, ItemNo(i), {"agg_update"})
           next_state == /\ agg_states' = [agg_states EXCEPT ![i] = a1]
                         /\ agg_pos' = [agg_pos EXCEPT ![i] = k]
                         /\ UNCHANGED <<fields, sorted_groupers, child_chunk,
                                        group_columns, groups, start_row_idx,
                                        builder_locals, no_input_data, pc,
                                        polled, out, input>>
       IN IF failing
          THEN \* the update of this state fails, or that of a later one
               \/ /\ Fail(i)
                  /\ UNCHANGED <<fields, agg_states, sorted_groupers,
                                 chunk_locals, builder_locals, no_input_data,
                                 input>>
               \/ /\ k < Len(agg_states[i])
                  /\ next_state
          ELSE IF k < Len(agg_states[i])
          THEN next_state
          ELSE IF groups[i] # <<>>
          THEN Output(i, sorted_groupers[i], a1)
          ELSE /\ agg_states' = [agg_states EXCEPT ![i] = a1]
               /\ pc' = [pc EXCEPT ![i] = "pull"]
               /\ UNCHANGED <<fields, sorted_groupers, chunk_locals,
                              builder_locals, no_input_data, polled, out,
                              input>>

\* a faulty variant: the capacity is one counter that all executors reset
Resume_shared(i) ==
    /\ pc[i] = "yielded"
    /\ polled[i]
    /\ LET b == create_builders(group_key[i], agg_states[i])
       IN /\ group_builders' = [group_builders EXCEPT ![i] = b.group]
          /\ agg_builders' = [agg_builders EXCEPT ![i] = b.agg]
    /\ left_capacity' = [j \in Insts |-> output_size_limit[i]]
    /\ pc' = [pc EXCEPT ![i] = "bound"]
    /\ UNCHANGED <<fields, agg_states, sorted_groupers, chunk_locals,
                   no_input_data, polled, out, input>>

\* a faulty variant: resumed after the yield, the row cursor goes back to the
\* start of the chunk
Resume_rewind(i) ==
    /\ pc[i] = "yielded"
    /\ polled[i]
    /\ LET b == create_builders(group_key[i], agg_states[i])
       IN /\ group_builders' = [group_builders EXCEPT ![i] = b.group]
          /\ agg_builders' = [agg_builders EXCEPT ![i] = b.agg]
    /\ left_capacity' = [left_capacity EXCEPT ![i] = output_size_limit[i]]
    /\ start_row_idx' = [start_row_idx EXCEPT ![i] = 0]
    /\ pc' = [pc EXCEPT ![i] = "bound"]
    /\ UNCHANGED <<fields, agg_states, sorted_groupers, child_chunk,
                   group_columns, groups, agg_pos, no_input_data, polled, out,
                   input>>

\* sort_agg.rs 175-179: resumed after the yield of a full batch.
Resume(i) ==
    /\ pc[i] = "yielded"
    /\ polled[i]
    /\ LET b == create_builders(group_key[i], agg_states[i])
       IN /\ group_builders' = [group_builders EXCEPT ![i] = b.group]
          /\ agg_builders' = [agg_builders EXCEPT ![i] = b.agg]
    /\ left_capacity' = [left_capacity EXCEPT ![i] = output_size_limit[i]]
    /\ pc' = [pc EXCEPT ![i] = "bound"]
    /\ UNCHANGED <<fields, agg_states, sorted_groupers, chunk_locals,
                   no_input_data, polled, out, input>>

\* a faulty variant: the rows after the last boundary are not folded
Trailing_skip(i) ==
    /\ pc[i] = "bound"
    /\ groups[i] = <<>>
    /\ pc' = [pc EXCEPT ![i] = "pull"]
    /\ UNCHANGED <<fields, agg_states, sorted_groupers, chunk_locals,
                   builder_locals, no_input_data, polled, out, input>>

\* a faulty variant: the group still open at the end of a chunk is output
\* with the chunk
Trailing_emit(i) ==
    /\ pc[i] = "bound"
    /\ groups[i] = <<>>
    /\ LET row_cnt == cardinality(child_chunk[i])
           upd == need_update(start_row_idx[i], row_cnt)
           g1 == IF upd
                 THEN update_sorted_groupers(sorted_groupers[i], group_columns[i],
                                             start_row_idx[i], row_cnt)
                 ELSE sorted_groupers[i]
           a1 == IF upd
                 THEN update_agg_states(agg_states[i], child_chunk[i],
                                        start_row_idx[i], row_cnt)
                 ELSE agg_states[i]
           ao == output_agg_states(a1, agg_builders[i])
       IN /\ sorted_groupers' = [sorted_groupers EXCEPT ![i] = g1]
          /\ agg_states' = [agg_states EXCEPT ![i] = ao.states]
          /\ group_builders' = [group_builders EXCEPT ![i] =
                 output_sorted_groupers(g1, @)]
          /\ agg_builders' = [agg_builders EXCEPT ![i] = ao.builders]
          /\ pc' = [pc EXCEPT ![i] = "pull"]
    /\ UNCHANGED <<fields, chunk_locals, left_capacity, no_input_data, polled,
                   out, input>>

\* sort_agg.rs 182-192: the rows after the last boundary are folded into the
\* group that stays open: the groupers are updated, then the aggregate states.
Trailing(i) ==
    /\ pc[i] = "bound"
    /\ groups[i] = <<>>
    /\ IF need_update(start_row_idx[i], cardinality(child_chunk[i]))
       THEN EnterUpdate(i, cardinality(child_chunk[i]))
       ELSE /\ pc' = [pc EXCEPT ![i] = "pull"]
            /\ UNCHANGED <<fields, agg_states, sorted_groupers, chunk_locals,
                           builder_locals, no_input_data, polled, out, input>>

\* sort_agg.rs 195-212: the child is exhausted: nothing for a grouped
\* aggregation without input, else the open group is output and the last
\* batch yielded.
Finish(i) ==
    /\ pc[i] = "pull"
    /\ polled[i]
    /\ child[i] = <<>>
    /\ LET gb == output_sorted_groupers(sorted_groupers[i], group_builders[i])
           ao == output_agg_states(agg_states[i], agg_builders[i])
       IN IF FaultHits(i, ItemNo(i) + 1, {"child"})
          THEN /\ Fail(i)
               /\ UNCHANGED <<agg_states, builder_locals>>
          ELSE IF left_capacity[i] = 0
          THEN \* assert!(left_capacity > 0)
               /\ pc' = [pc EXCEPT ![i] = "panicked"]
               /\ polled' = [polled EXCEPT ![i] = FALSE]
               /\ UNCHANGED <<agg_states, builder_locals, out>>
          ELSE IF suppress_output(no_input_data[i], group_key[i])
          THEN /\ pc' = [pc EXCEPT ![i] = "done"]
               /\ polled' = [polled EXCEPT ![i] = FALSE]
               /\ UNCHANGED <<agg_states, builder_locals, out>>
          ELSE IF \/ group_key[i] # <<>>
                        /\ FaultHits(i, ItemNo(i) + 1, {"grouper_output"})
                  \/ agg_states[i] # <<>>
                        /\ FaultHits(i, ItemNo(i) + 1, {"agg_output"})
          THEN OutputFailed(i, sorted_groupers[i], agg_states[i], ItemNo(i) + 1)
          ELSE /\ agg_states' = [agg_states EXCEPT ![i] = ao.states]
               /\ group_builders' = [group_builders EXCEPT ![i] = gb]
               /\ agg_builders' = [agg_builders EXCEPT ![i] = ao.builders]
               /\ out' = [out EXCEPT ![i] =
                      Append(@, Batch(gb \o ao.builders,
                                      final_cardinality(output_size_limit[i],
                                                        left_capacity[i])))]
               /\ pc' = [pc EXCEPT ![i] = "final"]
               /\ polled' = [polled EXCEPT ![i] = FALSE]
               /\ UNCHANGED left_capacity
    /\ UNCHANGED <<fields, sorted_groupers, chunk_locals, no_input_data, input>>

\* a faulty variant: resumed after the last yield, the generator stays where it is
End_again(i) ==
    /\ pc[i] = "final"
    /\ polled[i]
    /\ polled' = [polled EXCEPT ![i] = FALSE]
    /\ UNCHANGED <<fields, agg_states, sorted_groupers, chunk_locals,
                   builder_locals, no_input_data, pc, out, input>>

\* sort_agg.rs 213: resumed after the last yield, the generator returns.
End(i) ==
    /\ pc[i] = "final"
    /\ polled[i]
    /\ pc' = [pc EXCEPT ![i] = "done"]
    /\ polled' = [polled EXCEPT ![i] = FALSE]
    /\ UNCHANGED <<fields, agg_states, sorted_groupers, chunk_locals,
                   builder_locals, no_input_data, out, input>>

Next ==
    \E i \in Insts :
        \/ Poll(i)
        \/ Drop(i)
        \/ Start(i)
        \/ NextChunk(i)
        \/ Eval(i)
        \/ Boundary(i)
        \/ UpdateAgg(i)
        \/ Resume(i)
        \/ Trailing(i)
        \/ Finish(i)
        \/ End(i)

Spec == Init /\ [][Next]_vars
SpecVis == InitVis /\ [][Next]_vars
SpecFault == InitFault /\ [][Next]_vars
SpecPair == InitPair /\ [][Next]_vars

\* The steps of a stream that is pulled until it ends: the consumer never
\* drops it.
NextPulled ==
    \E i \in Insts :
        \/ Poll(i)
        \/ Start(i)
        \/ NextChunk(i)
        \/ Eval(i)
        \/ Boundary(i)
        \/ UpdateAgg(i)
        \/ Resume(i)
        \/ Trailing(i)
        \/ Finish(i)
        \/ End(i)

\* One execution without faults over a short generated stream.
InitPulled ==
    \E gk \in {<<>>, <<1>>}, limit \in 1..MaxLimit, n \in 0..MaxPairRows,
       m \in 0..MaxPairChunks :
        \E ks \in [1..n -> KeyTuples(gk)], c \in Cuts(n, m) :
            InitWith(Single(Setup(gk, CountSum, limit,
                                  Split(RowsWithKeys(ks), AllTrue(n), c, m), NoFault)))

\* An execution without faults whose consumer keeps pulling: a poll that can
\* be made is made, and a generator that was polled runs on to its next
\* yield (the child streams of the model answer every pull at once).
SpecPulled == InitPulled /\ [][NextPulled]_vars /\ WF_vars(NextPulled)

\* ------------------------------------------------------------ observation
RECURSIVE ConcatAll(_)
ConcatAll(ss) == IF ss = <<>> THEN <<>> ELSE Head(ss) \o ConcatAll(Tail(ss))

\* the rows held by a list of column builders (or by the columns of a batch)
RowsOfColumns(columns) ==
    IF columns = <<>> THEN <<>>
    ELSE [r \in 1..Len(columns[Len(columns)]) |->
             [c \in 1..Len(columns) |-> columns[c][r]]]

\* the batches the stream has yielded, and their rows in order
Batches(i) == SelectSeq(out[i], LAMBDA e : e.ok)
OutRows(i) == ConcatAll([b \in 1..Len(Batches(i)) |-> RowsOfColumns(Batches(i)[b].columns)])

\* the visible rows of a list of chunks, in order
FlatOf(chunks) ==
    ConcatAll([c \in 1..Len(chunks) |-> VisibleRows(chunks[c].rows, chunks[c].vis)])

\* the rows the executor has pulled so far
Flat(i) == FlatOf(input[i])

\* the key tuple of a row
KeyOf(gk, row) == [j \in 1..Len(gk) |-> row[gk[j] + 1]]

\* the first rows of the maximal runs of rows with the same key tuple
RunStarts(gk, rows) ==
    {p \in 1..Len(rows) : p = 1 \/ KeyOf(gk, rows[p]) # KeyOf(gk, rows[p - 1])}

\* the rows of the run that starts at p
RunOf(gk, rows, p) ==
    {q \in p..Len(rows) : \A r \in p..q : KeyOf(gk, rows[r]) = KeyOf(gk, rows[p])}

RECURSIVE SumOver(_, _, _)
SumOver(rows, col, S) ==
    IF S = {} THEN 0
    ELSE LET q == CHOOSE x \in S : TRUE
         IN rows[q][col + 1] + SumOver(rows, col, S \ {q})

\* the value of an aggregate over the set S of rows
FoldOf(agg, rows, S) ==
    IF agg.kind = "count" THEN Some(Cardinality(S))
    ELSE IF S = {} THEN None ELSE Some(SumOver(rows, agg.arg, S))

\* the output row of the run that starts at p: its key, then its aggregates
ExpectedRow(gk, aggs, rows, p) ==
    [j \in 1..Len(gk) |-> Some(KeyOf(gk, rows[p])[j])]
    \o [j \in 1..Len(aggs) |-> FoldOf(aggs[j], rows, RunOf(gk, rows, p))]

\* the output rows of all runs, in the order of the input
ExpectedRows(gk, aggs, rows) ==
    LET starts == SetToSortedSeq(RunStarts(gk, rows))
    IN [k \in 1..Len(starts) |-> ExpectedRow(gk, aggs, rows, starts[k])]

Occurrences(seq, x) == Cardinality({k \in 1..Len(seq) : seq[k] = x})
Range(seq) == {seq[k] : k \in 1..Len(seq)}

\* the instance has run to the end of its stream without an error
Finished(i) == pc[i] = "done"

\* the generator is inside its loop over the chunks of the child: waiting for
\* a chunk, for a key column or for an aggregate state, or running between
InLoop(i) == pc[i] \in {"pull", "eval", "bound", "update"}

\* the end of the row range that is updated next or is being updated: the
\* first boundary left, or the end of the chunk
EndRow(i) ==
    IF groups[i] # <<>> THEN Head(groups[i]) ELSE cardinality(child_chunk[i])

\* the aggregate state that is updated next inside update_agg_states, as that
\* update leaves it
NextUpdated(i) ==
    update_multi(agg_states[i][agg_pos[i] + 1], child_chunk[i], start_row_idx[i],
                 EndRow(i))

\* ----------------------------------------------------------------- claims
\* C1: after an error-free run with a non-empty group key, the rows of all
\* yielded batches are, counted with multiplicity, exactly the rows
\* (key tuple, fold of the run's rows) of the maximal runs of equal key in the
\* input: one row per run and no other row.
C1_OneRowPerRun ==
    \A i \in Insts :
        (Finished(i) /\ group_key[i] # <<>>) =>
            LET want == ExpectedRows(group_key[i], agg_states[i], Flat(i))
                got == OutRows(i)
            IN \A x \in Range(want) \cup Range(got) :
                   Occurrences(got, x) = Occurrences(want, x)

\* a grouped run over two chunks and several batches has finished, with a
\* run of equal keys that goes over the chunk boundary
C1_Witness ==
    /\ Finished(1)
    /\ group_key[1] = <<1, 2>>
    /\ Len(input[1]) = 2
    /\ Len(input[1][1].rows) = 2
    /\ Len(input[1][2].rows) = 1
    /\ KeyOf(group_key[1], input[1][1].rows[2]) = KeyOf(group_key[1], input[1][2].rows[1])
    /\ Len(Batches(1)) = 2

\* the number of groups of the rows pulled: the runs of equal key, or the one
\* group of the whole input when there is no key
NumGroups(i) ==
    IF group_key[i] = <<>> THEN 1 ELSE Cardinality(RunStarts(group_key[i], Flat(i)))

\* C2: every yielded batch but the last has exactly output_size_limit rows and
\* the last has between 1 and output_size_limit rows, so no batch is empty;
\* when the number of groups is a multiple of the limit, the last batch of a
\* finished run is full and there are exactly groups / limit batches.
C2_BatchSizes ==
    \A i \in Insts :
        LET b == Batches(i)
            limit == output_size_limit[i]
        IN /\ \A k \in 1..Len(b) :
                  /\ 1 <= b[k].card /\ b[k].card <= limit
                  /\ k < Len(b) => b[k].card = limit
           /\ (Finished(i) /\ b # <<>> /\ NumGroups(i) % limit = 0) =>
                  /\ Len(b) = NumGroups(i) \div limit
                  /\ b[Len(b)].card = limit

\* the grouped count of the tests has finished: nine groups with limit 3 gave
\* three batches of three rows
C2_Witness ==
    /\ Finished(1)
    /\ input[1] = TestChunksB
    /\ NumGroups(1) = 9
    /\ [k \in 1..Len(out[1]) |-> out[1][k].card] = <<3, 3, 3>>

\* C3: with an empty group key and no row in the input (no chunk, or chunks
\* without rows), a finished run has yielded exactly one batch of one row
\* with the aggregates over no rows: 0 for COUNT(*), NULL for SUM.
C3_EmptyKeyNoInput ==
    \A i \in Insts :
        (Finished(i) /\ group_key[i] = <<>> /\ Flat(i) = <<>>) =>
            /\ Len(out[i]) = 1
            /\ out[i][1].ok
            /\ out[i][1].card = 1
            /\ out[i][1].columns =
                   [j \in 1..Len(agg_states[i]) |->
                       IF agg_states[i][j].kind = "count" THEN <<Some(0)>> ELSE <<None>>]

\* a run without key over two chunks without rows has finished with its one row
C3_Witness ==
    /\ Finished(1)
    /\ group_key[1] = <<>>
    /\ Len(input[1]) = 2
    /\ Flat(1) = <<>>
    /\ out[1] = <<Batch(<< <<Some(0)>>, <<None>> >>, 1)>>

\* C4: with a non-empty group key, as long as no visible row was pulled the
\* stream has yielded nothing and has not failed, and a run that pulled no
\* visible row at all ends with zero batches.
C4_GroupedNoInput ==
    \A i \in Insts :
        (group_key[i] # <<>> /\ Flat(i) = <<>> /\ fault[i] = NoFault) =>
            /\ out[i] = <<>>
            /\ pc[i] \in {"start", "pull", "eval", "bound", "done", "dropped"}

\* a grouped run has finished without output over two chunks whose rows were
\* all filtered out
C4_Witness ==
    /\ Finished(1)
    /\ group_key[1] = <<1>>
    /\ Len(input[1]) = 2
    /\ Len(input[1][1].rows) > 0 /\ Len(input[1][2].rows) > 0
    /\ Flat(1) = <<>>
    /\ out[1] = <<>>

\* C5: with an empty group key no batch is yielded before the child is
\* exhausted, and a finished run over a non-empty input has yielded exactly
\* one batch of one row with the aggregates over all rows of all chunks: 55
\* for the sum of 1..10 with limit 4, 12 for the count over three chunks of
\* four rows with limit 3.
C5_EmptyKeyOneRow ==
    \A i \in Insts :
        group_key[i] = <<>> =>
            /\ out[i] # <<>> => (child[i] = <<>> /\ pc[i] \in {"final", "done", "dropped"})
            /\ (Finished(i) /\ Flat(i) # <<>>) =>
                   out[i] = <<Batch([j \in 1..Len(agg_states[i]) |->
                                        <<FoldOf(agg_states[i][j], Flat(i),
                                                 1..Len(Flat(i)))>>], 1)>>
            /\ (Finished(i) /\ input[i] = TestChunksC /\ agg_states[i] = SumCol0
                    /\ output_size_limit[i] = 4) =>
                   out[i] = <<Batch(<< <<Some(55)>> >>, 1)>>
            /\ (Finished(i) /\ input[i] = TestChunksA /\ agg_states[i] = CountStar
                    /\ output_size_limit[i] = 3) =>
                   out[i] = <<Batch(<< <<Some(12)>> >>, 1)>>

\* the sum of the tests has finished with 55
C5_Witness ==
    /\ Finished(1)
    /\ group_key[1] = <<>>
    /\ input[1] = TestChunksC
    /\ output_size_limit[1] = 4
    /\ out[1] = <<Batch(<< <<Some(55)>> >>, 1)>>

\* the first batch of the grouped sum of the tests, as (key1, key2, sum)
C6_FirstBatch ==
    Batch(<< <<Some(1), Some(1), Some(3), Some(3)>>,
             <<Some(7), Some(8), Some(8), Some(9)>>,
             <<Some(1), Some(2), Some(3), Some(5)>> >>, 4)

\* its second batch, the sum of the group (5,9) being s
C6_SecondBatch(s) ==
    Batch(<< <<Some(4), Some(5)>>, <<Some(9), Some(9)>>, <<Some(5), Some(s)>> >>, 2)

\* the grouped sum over $0 by $1, $2 with limit 4 has finished over chunks
C6_Ran(chunks) ==
    /\ Finished(1)
    /\ group_key[1] = <<1, 2>>
    /\ agg_states[1] = SumCol0
    /\ output_size_limit[1] = 4
    /\ input[1] = chunks

\* C6 as the claim states it: over exactly the two chunks the batches are
\* [(1,7,1),(1,8,2),(3,8,3),(3,9,5)] and [(4,9,5),(5,9,14)].
C6_Original ==
    C6_Ran(SubSeqOf(TestChunksA, 0, 2)) => out[1] = <<C6_FirstBatch, C6_SecondBatch(14)>>

\* C6, amended: over exactly the two chunks the second batch is
\* [(4,9,5),(5,9,4)], the group (5,9) holding the one row (4,5,9); the sum 14
\* is the result over the three chunks of the test, whose third chunk adds the
\* rows 1, 2, 3, 4 to that group.
C6_TwoChunks ==
    /\ C6_Ran(SubSeqOf(TestChunksA, 0, 2)) =>
           out[1] = <<C6_FirstBatch, C6_SecondBatch(4)>>
    /\ C6_Ran(TestChunksA) => out[1] = <<C6_FirstBatch, C6_SecondBatch(14)>>

\* the run over the two chunks has finished
C6_Witness ==
    /\ C6_Ran(SubSeqOf(TestChunksA, 0, 2))
    /\ Len(out[1]) = 2

\* C7: two finished executions of the same rows with the same key, aggregates
\* and limit have yielded the same sequence of batches, however the rows were
\* cut into chunks, and a run of equal keys gives one row also when it goes
\* over a chunk boundary.
C7_ChunkingIndependent ==
    (/\ Finished(1) /\ Finished(2)
     /\ Flat(1) = Flat(2)
     /\ group_key[1] = group_key[2]
     /\ output_size_limit[1] = output_size_limit[2]) =>
        /\ out[1] = out[2]
        /\ Len(OutRows(2)) =
               (IF group_key[2] = <<>> THEN 1
                ELSE Cardinality(RunStarts(group_key[2], Flat(2))))

\* both have finished; the second got the rows in two chunks, its one run of
\* equal keys going over the chunk boundary
C7_Witness ==
    /\ Finished(1) /\ Finished(2)
    /\ group_key[2] = <<1>>
    /\ Len(input[1]) = 1
    /\ Len(input[2]) = 2
    /\ Len(input[2][1].rows) = 1 /\ Len(input[2][2].rows) = 1
    /\ input[2][1].rows[1][2] = input[2][2].rows[1][2]
    /\ Len(OutRows(2)) = 1

\* the key tuples of the output rows, in the order of the output
OutKeys(i) ==
    [k \in 1..Len(OutRows(i)) |-> SubSeqOf(OutRows(i)[k], 0, Len(group_key[i]))]

\* the key tuples of the runs of the input, in the order of their first rows
RunKeys(i) ==
    LET starts == SetToSortedSeq(RunStarts(group_key[i], Flat(i)))
    IN [k \in 1..Len(starts) |->
           [j \in 1..Len(group_key[i]) |->
               Some(KeyOf(group_key[i], Flat(i)[starts[k]])[j])]]

\* C8: after an error-free grouped run the key tuples of the output rows,
\* over all batches, are the key tuples of the groups in the order of the
\* groups' first rows in the input.
C8_OrderPreserved ==
    \A i \in Insts :
        (Finished(i) /\ group_key[i] # <<>>) => OutKeys(i) = RunKeys(i)

\* three groups with different keys came out in two batches
C8_Witness ==
    /\ Finished(1)
    /\ group_key[1] = <<1, 2>>
    /\ Len(Batches(1)) = 2
    /\ Len(OutKeys(1)) = 3
    /\ OutKeys(1)[1] # OutKeys(1)[2] /\ OutKeys(1)[2] # OutKeys(1)[3]
    /\ OutKeys(1)[1] # OutKeys(1)[3]

\* C9: every column of a yielded batch holds as many values as the batch has
\* rows, so a row is never split; after an error-free run the batches hold as
\* many rows as the input has groups, and no row twice.
C9_OneRowPerGroup ==
    \A i \in Insts :
        /\ \A k \in 1..Len(Batches(i)) :
               \A c \in 1..Len(Batches(i)[k].columns) :
                   Len(Batches(i)[k].columns[c]) = Batches(i)[k].card
        /\ Finished(i) =>
               LET groups_in == IF group_key[i] # <<>> /\ Flat(i) = <<>>
                                THEN 0 ELSE NumGroups(i)
               IN /\ Len(OutRows(i)) = groups_in
                  /\ \A k, l \in 1..Len(OutRows(i)) :
                         k # l => OutRows(i)[k] # OutRows(i)[l]

\* three groups, the last one closed by the end of the stream, after a full
\* batch was yielded
C9_Witness ==
    /\ Finished(1)
    /\ group_key[1] # <<>>
    /\ output_size_limit[1] = 2
    /\ NumGroups(1) = 3
    /\ Len(Batches(1)) = 2
    /\ Len(OutRows(1)) = 3

\* C10, in every state: an error is the last element of the stream and the
\* stream has failed exactly then; it is the error of the call that failed;
\* everything yielded before it is a full batch, whatever the builders hold;
\* with an empty key it is the only element; and a child that fails never
\* gets to the final flush.
C10_State ==
    \A i \in Insts :
        /\ \A k \in 1..(Len(out[i]) - 1) : out[i][k].ok
        /\ pc[i] = "failed" <=> (out[i] # <<>> /\ ~out[i][Len(out[i])].ok)
        /\ pc[i] = "failed" =>
               /\ out[i][Len(out[i])] = ErrItem(fault[i].kind)
               /\ ~polled[i]
               /\ \A k \in 1..(Len(out[i]) - 1) : out[i][k].card = output_size_limit[i]
               /\ Len(OutRows(i)) = output_size_limit[i] * (Len(out[i]) - 1)
               /\ group_key[i] = <<>> => Len(out[i]) = 1
        /\ (fault[i].kind = "child" /\ fault[i].at <= Len(input[i]) + Len(child[i]) + 1) =>
               /\ pc[i] \notin {"final", "done"}
               /\ Len(input[i]) < fault[i].at

\* C10, in every step: a step that fails appends the error and nothing else,
\* and after the error the stream yields nothing more.
C10_Step ==
    \A i \in Insts :
        /\ (pc[i] # "failed" /\ pc'[i] = "failed") =>
               out'[i] = Append(out[i], ErrItem(fault[i].kind))
        /\ pc[i] = "failed" => (pc'[i] = "failed" /\ out'[i] = out[i])

\* C10: on an error the next and last element of the stream is that error:
\* no partial batch, no final flush, nothing after it.
C10_ErrorIsLast == []C10_State /\ [][C10_Step]_vars

\* an output call failed while the builders held the row of a closed group:
\* the stream consists of the error
C10_Witness ==
    /\ pc[1] = "failed"
    /\ group_key[1] # <<>>
    /\ Len(group_builders[1][1]) = 1
    /\ out[1] = <<ErrItem("agg_output")>>

\* ------------------------------------------------- the batches of a whole run
\* the chunks of the child stream, pulled or not
WholeInput(i) == input[i] \o child[i]

\* The rows an execution without error yields over rows: one per run of equal
\* key or, without key, the one row of the fold over all rows.
ReferenceRows(gk, aggs, rows) ==
    IF gk = <<>>
    THEN <<[j \in 1..Len(aggs) |-> FoldOf(aggs[j], rows, 1..Len(rows))]>>
    ELSE ExpectedRows(gk, aggs, rows)

\* rows lo+1 .. hi as a batch of width columns
BatchOfRows(rows, lo, hi, width) ==
    Batch([c \in 1..width |-> [r \in 1..(hi - lo) |-> rows[lo + r][c]]], hi - lo)

\* the rows cut into batches of limit rows, the last one holding the rest
BatchesOfRows(rows, limit, width) ==
    [b \in 1..((Len(rows) + limit - 1) \div limit) |->
        BatchOfRows(rows, (b - 1) * limit,
                    IF b * limit < Len(rows) THEN b * limit ELSE Len(rows), width)]

\* the batch sequence of the execution without error over the whole input
ReferenceBatches(i) ==
    BatchesOfRows(ReferenceRows(group_key[i], agg_states[i], FlatOf(WholeInput(i))),
                  output_size_limit[i], Len(group_key[i]) + Len(agg_states[i]))

IsPrefix(s, t) == Len(s) <= Len(t) /\ s = SubSeqOf(t, 0, Len(s))

\* C11, in every state: the batches yielded are a prefix of the batch
\* sequence of the execution without error over the same input; an execution
\* that ends without error has yielded all of that sequence, and one that
\* fails has yielded a prefix of it made of full batches.
C11_State ==
    \A i \in Insts :
        /\ Batches(i) # <<>> => IsPrefix(Batches(i), ReferenceBatches(i))
        /\ Finished(i) => Batches(i) = ReferenceBatches(i)
        /\ pc[i] = "failed" =>
               /\ out[i] = Append(Batches(i), ErrItem(fault[i].kind))
               /\ \A k \in 1..Len(Batches(i)) :
                      /\ Batches(i)[k].card = output_size_limit[i]
                      /\ \A c \in 1..Len(Batches(i)[k].columns) :
                             Len(Batches(i)[k].columns[c]) = output_size_limit[i]

\* C11, in every step: a batch once yielded stays; the error is put after the
\* batches and takes none back.
C11_Step == \A i \in Insts : IsPrefix(Batches(i), Batches(i)')

\* C11: the batches yielded before an error are a prefix of the batches of the
\* execution of the same input without the failure, each of them a full batch
\* of output_size_limit rows, and the error retracts none of them.
C11_PrefixOfErrorFree == []C11_State /\ [][C11_Step]_vars

\* the second chunk failed after a full batch was yielded over the first, and
\* the execution without error has more batches than that one
C11_Witness ==
    /\ pc[1] = "failed"
    /\ fault[1].at = 2
    /\ Len(input[1]) = 2
    /\ Len(Batches(1)) = 1
    /\ Len(ReferenceBatches(1)) = 2

\* the column builders of the batch under construction
Builders(i) == group_builders[i] \o agg_builders[i]

\* C12: while a batch is built every column builder holds
\* output_size_limit - left_capacity values, one per row emitted since the
\* last yield of a full batch; a full batch is declared with output_size_limit
\* rows when no capacity is left and holds that many values in every column;
\* and the last batch is declared with output_size_limit - left_capacity + 1
\* rows, the number of values in every column builder once the row of the
\* last group is appended.
C12_DeclaredCardinality ==
    \A i \in Insts :
        LET limit == output_size_limit[i]
            b == Batches(i)
        IN /\ InLoop(i) =>
                  /\ 1 <= left_capacity[i] /\ left_capacity[i] <= limit
                  /\ \A c \in 1..Len(Builders(i)) :
                         Len(Builders(i)[c]) = limit - left_capacity[i]
           /\ pc[i] = "yielded" =>
                  /\ left_capacity[i] = 0
                  /\ b[Len(b)].card = limit
                  /\ b[Len(b)].columns = Builders(i)
           /\ pc[i] = "final" =>
                  /\ b[Len(b)].card = limit - left_capacity[i] + 1
                  /\ b[Len(b)].columns = Builders(i)
                  /\ \A c \in 1..Len(Builders(i)) :
                         Len(Builders(i)[c]) = limit - left_capacity[i] + 1
           /\ \A k \in 1..Len(b) :
                  b[k].card = limit =>
                      \A c \in 1..Len(b[k].columns) : Len(b[k].columns[c]) = limit

\* the grouped sum of the tests has yielded its last batch: after the full
\* batch of four rows, one row was emitted and the last group added the second
C12_Witness ==
    /\ pc[1] = "final"
    /\ input[1] = TestChunksA
    /\ group_key[1] = <<1, 2>>
    /\ output_size_limit[1] = 4
    /\ left_capacity[1] = 3
    /\ Len(Batches(1)) = 2
    /\ Batches(1)[2].card = 2
    /\ \A c \in 1..3 : Len(Batches(1)[2].columns[c]) = 2

\* the stream of instance i has ended with the error of an output call
OutputErred(i) ==
    /\ pc[i] = "failed"
    /\ out[i][Len(out[i])] \in {ErrItem("grouper_output"), ErrItem("agg_output")}

\* every one of the columns holds as many values as the first
SameLength(cols) == \A c \in 1..Len(cols) : Len(cols[c]) = Len(cols[1])

\* C13 as stated, in every state, a failed execution included: all group
\* builders and aggregate builders hold the same number of values.
C13_AllStates == \A i \in Insts : SameLength(Builders(i))

\* C13 as stated, in every step, a failing one included: the builders are
\* made anew or every one of them gets exactly one value more.
C13_EveryEmit ==
    \A i \in Insts :
        Builders(i)' # Builders(i) =>
            \/ \A c \in 1..Len(Builders(i)') : Builders(i)'[c] = <<>>
            \/ /\ Len(Builders(i)') = Len(Builders(i))
               /\ \A c \in 1..Len(Builders(i)) :
                      Len(Builders(i)'[c]) = Len(Builders(i)[c]) + 1

\* C13 as stated: in every reachable state all group builders and aggregate
\* builders hold the same number of values, every emit appending exactly one
\* value to each of them.
C13_Original == []C13_AllStates /\ [][C13_EveryEmit]_vars

\* C13, in every state: unless the stream has ended with the error of an
\* output call, all group builders and aggregate builders hold the same
\* number of values; after such an error no builder is more than one value
\* ahead of another and none behind a later one; the columns of every batch
\* hold the same number of values; and once a batch is handed over or the
\* stream has ended without error, every row across the builders and across
\* the columns of a yielded batch is the row of one group: the key of a run
\* of the input next to the aggregates over the rows of that same run.
C13_State ==
    \A i \in Insts :
        /\ LET cols == Builders(i)
           IN IF OutputErred(i)
              THEN \A c, d \in 1..Len(cols) :
                       c <= d => Len(cols[c]) - Len(cols[d]) \in {0, 1}
              ELSE SameLength(cols)
        /\ \A k \in 1..Len(out[i]) : out[i][k].ok => SameLength(out[i][k].columns)
        /\ pc[i] \in {"yielded", "final", "done"} =>
               Range(RowsOfColumns(Builders(i))) \cup Range(OutRows(i))
                   \subseteq Range(ReferenceRows(group_key[i], agg_states[i], Flat(i)))

\* C13, in every step: the builders change together: they are made anew,
\* all empty, or every one of them gets exactly one value more, and the
\* values appended are the row of one group of the rows pulled; or an output
\* call fails, some builders have got one value and the others none, and the
\* stream ends with the error, no batch being made of the builders.
C13_Step ==
    \A i \in Insts :
        Builders(i)' # Builders(i) =>
            \/ \A c \in 1..Len(Builders(i)') : Builders(i)'[c] = <<>>
            \/ /\ Len(Builders(i)') = Len(Builders(i))
               /\ \A c \in 1..Len(Builders(i)) :
                      /\ Len(Builders(i)'[c]) = Len(Builders(i)[c]) + 1
                      /\ SubSeq(Builders(i)'[c], 1, Len(Builders(i)[c])) = Builders(i)[c]
               /\ [c \in 1..Len(Builders(i)) |-> Builders(i)'[c][Len(Builders(i)'[c])]]
                      \in Range(ReferenceRows(group_key[i], agg_states[i], Flat(i)))
               /\ pc'[i] # "failed"
            \/ /\ OutputErred(i)'
               /\ pc[i] # "failed"
               /\ out'[i] = Append(out[i], out'[i][Len(out'[i])])
               /\ Len(Builders(i)') = Len(Builders(i))
               /\ \A c \in 1..Len(Builders(i)) :
                      \/ Builders(i)'[c] = Builders(i)[c]
                      \/ /\ Len(Builders(i)'[c]) = Len(Builders(i)[c]) + 1
                         /\ SubSeq(Builders(i)'[c], 1, Len(Builders(i)[c])) = Builders(i)[c]

\* C13: in every state of an execution in which no output call has failed
\* all group builders and aggregate builders hold the same number of values,
\* every emit that succeeds appending exactly one value to each of them, so
\* that every row across the columns of a yielded batch is the row of one
\* group, the key of a run next to the aggregates over that run. An emit in
\* which an output call fails has appended to the builders before the failing
\* call only, and ends the stream with the error: no batch is made of them.
C13_RowsAligned == []C13_State /\ [][C13_Step]_vars

\* the grouped sum of the tests, two groupers and one aggregate state, has
\* yielded its last batch: every builder holds the two rows emitted after
\* the full batch, with different keys and different sums
C13_Witness ==
    /\ pc[1] = "final"
    /\ input[1] = TestChunksA
    /\ group_key[1] = <<1, 2>>
    /\ Len(Batches(1)) = 2
    /\ Len(Builders(1)) = 3
    /\ \A c \in 1..3 : Len(Builders(1)[c]) = 2
    /\ Builders(1)[1][1] # Builders(1)[1][2]
    /\ Builders(1)[3][1] # Builders(1)[3][2]
    /\ Batches(1)[2].columns = Builders(1)

\* C14, in every state: the stream never holds more batches than the
\* execution of its finite input has groups to fill, and a stream that ended
\* over a keyed input without rows ended with zero batches.
C14_State ==
    \A i \in Insts :
        /\ Len(out[i]) <= Len(ReferenceBatches(i))
        /\ Len(ReferenceBatches(i)) <= Len(FlatOf(WholeInput(i))) + 1
        /\ (Finished(i) /\ group_key[i] # <<>> /\ FlatOf(WholeInput(i)) = <<>>) =>
               out[i] = <<>>

\* C14, in every step: the pull after the last batch ends the stream and
\* yields nothing, and an ended stream stays ended.
C14_Step ==
    \A i \in Insts :
        /\ (pc[i] = "final" /\ polled[i] /\ polled'[i] # polled[i]) =>
               (pc'[i] = "done" /\ out'[i] = out[i])
        /\ pc[i] = "done" => (pc'[i] = "done" /\ out'[i] = out[i])

\* C14: over every finite input without error a stream that is pulled ends:
\* the child is exhausted, the last batch (none for a keyed input without
\* rows) is followed by the end of the stream at the next pull, and the
\* number of batches is bounded by the input.
C14_Terminates ==
    /\ []C14_State
    /\ [][C14_Step]_vars
    /\ <>[](pc[1] = "done" /\ child[1] = <<>>)

\* a stream over two chunks has ended after a full batch and a last batch
C14_Witness ==
    /\ Finished(1)
    /\ child[1] = <<>>
    /\ Len(input[1]) = 2
    /\ Len(out[1]) = 2
    /\ out[1][1].card = 1 /\ out[1][2].card = 1

\* ------------------------------------------------------------ re-aggregation
\* output rows as the rows of an input chunk: every value without its Some
AsInputRows(rows) == [r \in 1..Len(rows) |-> [c \in 1..Len(rows[r]) |-> rows[r][c][1]]]

\* the rows of an input chunk as output rows: every value in its Some
AsOutputRows(rows) == [r \in 1..Len(rows) |-> [c \in 1..Len(rows[r]) |-> Some(rows[r][c])]]

\* The executor that aggregates the output of an executor with key gk and the
\* aggregates COUNT(*), SUM: its key columns are the first Len(gk) columns of
\* that output, and its aggregates are the same ones, the sum over the
\* output's sum column.
ReaggKey(gk) == [j \in 1..Len(gk) |-> j - 1]
ReaggAggs(gk) == <<NewAgg("count", 0), NewAgg("sum", Len(gk) + 1)>>

\* Two executions: instance 1 over a generated stream with at least one row
\* or a key (so that its output holds no NULL), instance 2 with the same limit
\* over the output of instance 1, given as one chunk.
InitReagg ==
    \E gk \in {<<>>, <<1>>}, limit \in 1..MaxLimit, n \in 0..MaxPairRows,
       m \in 0..MaxPairChunks :
        \E ks \in [1..n -> KeyTuples(gk)], c \in Cuts(n, m) :
            /\ gk = <<>> => n > 0
            /\ InitWith([i \in Insts |->
                   IF i = 1
                   THEN Setup(gk, CountSum, limit,
                              Split(RowsWithKeys(ks), AllTrue(n), c, m), NoFault)
                   ELSE Setup(ReaggKey(gk), ReaggAggs(gk), limit,
                              <<AllVisible(AsInputRows(
                                    ReferenceRows(gk, CountSum, RowsWithKeys(ks))))>>,
                              NoFault)])

SpecReagg == InitReagg /\ [][Next]_vars

\* both executions have finished, the second over the output of the first
C15_Ran ==
    /\ Finished(1) /\ Finished(2)
    /\ AsOutputRows(Flat(2)) = OutRows(1)

\* C15 as the claim states it: the re-aggregation of the output has the same
\* result set as the output, keys and aggregate values.
C15_Original == C15_Ran => Range(OutRows(2)) = Range(OutRows(1))

\* C15, amended: the second execution reads exactly the output of the first;
\* its output has as many rows, with the same key tuples and the same sums
\* in the same order, and its COUNT(*) is 1 in every row, the count of the
\* first execution only for a group of one row.
C15_Reaggregation ==
    /\ Finished(1) =>
           /\ Len(WholeInput(2)) = 1
           /\ AsOutputRows(FlatOf(WholeInput(2))) = OutRows(1)
    /\ C15_Ran =>
           LET a == OutRows(1)
               b == OutRows(2)
               nk == Len(group_key[1])
           IN /\ Len(b) = Len(a)
              /\ \A k \in 1..Len(a) :
                     /\ SubSeqOf(b[k], 0, nk) = SubSeqOf(a[k], 0, nk)
                     /\ b[k][nk + 2] = a[k][nk + 2]
                     /\ b[k][nk + 1] = Some(1)
                     /\ (b[k] = a[k]) <=> (a[k][nk + 1] = Some(1))

\* both have finished, the first over a group of two rows in two chunks: the
\* re-aggregation counts 1 where the output had 2
C15_Witness ==
    /\ C15_Ran
    /\ group_key[1] = <<1>>
    /\ Len(input[1]) = 2
    /\ Len(OutRows(1)) = 1
    /\ OutRows(1)[1][2] = Some(2)
    /\ OutRows(2)[1][2] = Some(1)
    /\ OutRows(2)[1][3] = OutRows(1)[1][3]

\* what an instance holds apart from its place in the generator: the child
\* stream and the chunks pulled from it, the groupers and aggregate states,
\* the builders and the capacity, the chunk being processed, and the output
Held(i) ==
    <<child[i], input[i], sorted_groupers[i], agg_states[i], group_builders[i],
      agg_builders[i], left_capacity[i], no_input_data[i], child_chunk[i],
      group_columns[i], groups[i], start_row_idx[i], agg_pos[i], out[i]>>

\* C16, in every step: the step that drops a stream and every step after it
\* leave the child unpulled, the groupers and aggregate states neither
\* updated nor output, the builders as they were and the output without a
\* further batch; a dropped stream stays dropped and is not polled.
C16_Step ==
    \A i \in Insts :
        /\ pc'[i] = "dropped" => Held(i)' = Held(i)
        /\ pc[i] = "dropped" => (pc'[i] = "dropped" /\ ~polled'[i])

\* C16: after the consumer has dropped the stream before its end, no input
\* is pulled, no grouper or aggregate state is updated or output, and no
\* batch is yielded.
C16_DropStops == [][C16_Step]_vars

\* the stream was dropped after its first batch, with a chunk left in the
\* child and a group open in the aggregate states
C16_Witness ==
    /\ pc[1] = "dropped"
    /\ child[1] # <<>>
    /\ Len(out[1]) = 1
    /\ agg_states[1][1].result # InitialResult("count")
    /\ sorted_groupers[1] # create_sorted_groupers(group_key[1])

\* everything of an instance: what it holds, where it stands, its setup
Whole(i) == <<Held(i), pc[i], polled[i], group_key[i], output_size_limit[i], fault[i]>>

\* C17, in every state: each of the two instances has yielded a prefix of the
\* batch sequence of its own input, and all of it once it has finished.
C17_State ==
    \A i \in Insts :
        /\ IsPrefix(out[i], ReferenceBatches(i))
        /\ Finished(i) => out[i] = ReferenceBatches(i)

\* C17, in every step: a step of one instance changes nothing of the other:
\* not its groupers, aggregate states, builders, capacity, input or output.
C17_Step ==
    \A i, j \in Insts :
        (i # j /\ Whole(i)' # Whole(i)) => Whole(j)' = Whole(j)

\* C17: two executors whose steps interleave in any order share no state, and
\* each yields exactly the batch sequence it yields when run alone on its
\* input.
C17_Isolated == []C17_State /\ [][C17_Step]_vars

\* both instances are in the middle of their runs, each with a batch yielded
\* and a group open, the second one in its second chunk
C17_Witness ==
    /\ pc[1] = "yielded"
    /\ pc[2] = "bound"
    /\ Len(out[1]) = 1 /\ Len(out[2]) = 1
    /\ Len(input[2]) = 2
    /\ Len(ReferenceBatches(1)) = 2

\* the rows pulled so far that belong to the group still open: the last run of
\* equal keys, or all rows when there is no key
OpenRun(i) ==
    IF Flat(i) = <<>> THEN {}
    ELSE LET starts == RunStarts(group_key[i], Flat(i))
             last == CHOOSE p \in starts : \A q \in starts : q <= p
         IN RunOf(group_key[i], Flat(i), last)

\* Between two chunks the aggregate states hold the fold over the rows of the
\* open group and over no row of a group that was output; right after an
\* output they hold what fresh states hold.
C18_NoCarryOver(i) ==
    /\ pc[i] = "pull" =>
           \A j \in 1..Len(agg_states[i]) :
               agg_states[i][j].result = FoldOf(agg_states[i][j], Flat(i), OpenRun(i))
    /\ pc[i] \in {"yielded", "final"} =>
           \A j \in 1..Len(agg_states[i]) :
               agg_states[i][j] = NewAgg(agg_states[i][j].kind, agg_states[i][j].arg)

\* C18 as the claim states it: an aggregate state is the same before and
\* after its own output, fresh states being made by the driver, and no row
\* of a closed group contributes to a later group.
C18_Original ==
    \A i \in Insts :
        /\ \A j \in 1..Len(agg_states[i]) :
               agg_output_state(agg_states[i][j]) = agg_states[i][j]
        /\ C18_NoCarryOver(i)

\* C18, amended: the driver makes no aggregate states after an output; it
\* keeps the states it was constructed with, and the output of a state leaves
\* it as a fresh state of its kind, so no row of a closed group contributes
\* to a later group's aggregate value.
C18_FreshByOutput == \A i \in Insts : C18_NoCarryOver(i)

\* a group of two rows was output and the third row, of another key, is held
\* alone by the aggregate states
C18_Witness ==
    /\ pc[1] = "pull"
    /\ group_key[1] # <<>>
    /\ Len(Flat(1)) = 3
    /\ OpenRun(1) = {3}
    /\ Len(OutRows(1)) + Len(RowsOfColumns(Builders(1))) >= 1
    /\ agg_states[1][1].result = Some(1)
    /\ agg_states[1][2].result = Some(4)

\* the last value of every column builder: the row emitted last
LastEmitted(i) == [c \in 1..Len(Builders(i)) |-> Builders(i)[c][Len(Builders(i)[c])]]

\* C19, in every state: when a chunk has been processed, as many rows have
\* been emitted as the rows pulled have boundaries: one per change of key.
C19_State ==
    \A i \in Insts :
        pc[i] = "pull" =>
            Len(OutRows(i)) + Len(RowsOfColumns(Builders(i))) =
                (IF group_key[i] = <<>> \/ Flat(i) = <<>> THEN 0
                 ELSE Cardinality(RunStarts(group_key[i], Flat(i))) - 1)

\* C19, in every step of the processing of a chunk: the turn over an entry e
\* of the boundary list takes that entry off the list and appends exactly one
\* value to every builder; with start < e the groupers and then the aggregate
\* states are updated over [start, e) before, the emit following the update
\* of the last state, and with start = e, which is e = 0, the group carried
\* over from the chunks before is emitted with no update; the steps that
\* take no entry (the pull of the chunk, the evaluation of its key columns,
\* the updates, the trailing update) emit nothing.
C19_Step ==
    \A i \in Insts :
        \* the turn over the entry e begins
        /\ (pc[i] = "bound" /\ Whole(i)' # Whole(i) /\ groups[i] # <<>>) =>
               LET e == Head(groups[i])
                   start == start_row_idx[i]
               IN /\ start <= e
                  /\ start < e =>
                         /\ pc'[i] = "update"
                         /\ sorted_groupers'[i] =
                                update_sorted_groupers(sorted_groupers[i],
                                                       group_columns[i], start, e)
                         /\ groups'[i] = groups[i]
                         /\ start_row_idx'[i] = start
                         /\ Builders(i)' = Builders(i) /\ out'[i] = out[i]
                  /\ start = e =>
                         /\ e = 0
                         /\ groups'[i] = Tail(groups[i])
                         /\ start_row_idx'[i] = e
                         /\ \A c \in 1..Len(Builders(i)) :
                                Len(Builders(i)'[c]) = Len(Builders(i)[c]) + 1
                         /\ sorted_groupers'[i] = sorted_groupers[i]
                         /\ LastEmitted(i)' =
                                [j \in 1..Len(group_key[i]) |->
                                    sorted_groupers[i][j].group_value]
                                \o [j \in 1..Len(agg_states[i]) |-> agg_states[i][j].result]
        \* the update of the last aggregate state over [start, e) is followed
        \* by the emit
        /\ (pc[i] = "update" /\ groups[i] # <<>>
                /\ agg_pos[i] + 1 = Len(agg_states[i]) /\ pc'[i] # "dropped") =>
               LET e == Head(groups[i])
               IN /\ start_row_idx[i] < e
                  /\ groups'[i] = Tail(groups[i])
                  /\ start_row_idx'[i] = e
                  /\ \A c \in 1..Len(Builders(i)) :
                         Len(Builders(i)'[c]) = Len(Builders(i)[c]) + 1
                  /\ LastEmitted(i)' =
                         [j \in 1..Len(group_key[i]) |-> Some(group_columns[i][j][e])]
                         \o [j \in 1..Len(agg_states[i]) |->
                                IF j < Len(agg_states[i]) THEN agg_states[i][j].result
                                ELSE NextUpdated(i).result]
        \* the steps that take no entry emit nothing
        /\ (groups'[i] = groups[i] /\ pc[i] \in {"eval", "bound", "update"}) =>
               (Builders(i)' = Builders(i) /\ out'[i] = out[i])
        /\ (pc[i] = "pull" /\ child[i] # <<>>) =>
               (Builders(i)' = Builders(i) /\ out'[i] = out[i])

\* C19: every entry of a chunk's boundary list gives exactly one emitted row,
\* whether rows were updated before it or not, so that a chunk emits as many
\* rows as its boundary list has entries.
C19_EmitPerBoundary == []C19_State /\ [][C19_Step]_vars

\* the second chunk began with another key than the one row of the first: the
\* group carried over was emitted for the entry 0 with no update, and the
\* entry 1 is still on the list
C19_Witness ==
    /\ pc[1] = "bound"
    /\ Len(input[1]) = 2
    /\ Len(input[1][1].rows) = 1
    /\ start_row_idx[1] = 0
    /\ groups[1] = <<1>>
    /\ out[1] = <<>>
    /\ group_key[1] = <<1>>
    /\ \A c \in 1..3 : Len(Builders(1)[c]) = 1
    /\ LastEmitted(1) = <<Some(input[1][1].rows[1][2]), Some(1), Some(1)>>

\* the values of key column j (from 1) over the visible rows pulled so far
KeyValuesSeen(i, j) == {Some(KeyOf(group_key[i], Flat(i)[p])[j]) : p \in 1..Len(Flat(i))}

\* the values of key column j emitted so far, in the builders or in a batch
KeyValuesEmitted(i, j) ==
    Range(group_builders[i][j])
    \cup UNION {Range(Batches(i)[k].columns[j]) : k \in 1..Len(Batches(i))}

\* C20: with a key, as long as no visible row was pulled the groupers carry
\* no value and nothing is emitted; in the first chunk with visible rows row
\* 0 is no boundary, so no row is emitted for a group without rows ahead of
\* the first group; a grouper whose value was emitted has been updated
\* before and carries a value of its column; and every emitted key value is
\* a value of that key column in the rows pulled.
C20_NoGroupBeforeFirstRow ==
    \A i \in Insts :
        group_key[i] # <<>> =>
            /\ Flat(i) = <<>> =>
                   /\ \A j \in 1..Len(group_key[i]) :
                          sorted_groupers[i][j] = NewGrouper
                   /\ \A j \in 1..Len(group_builders[i]) : group_builders[i][j] = <<>>
                   /\ groups[i] = <<>>
                   /\ out[i] = <<>>
            /\ (pc[i] = "bound" /\ Flat(i) # <<>>
                    /\ Len(Flat(i)) = cardinality(child_chunk[i])) =>
                   /\ \A k \in 1..Len(groups[i]) : groups[i][k] > 0
                   /\ Len(OutRows(i)) + Len(RowsOfColumns(Builders(i))) + Len(groups[i]) =
                          Cardinality(RunStarts(group_key[i], Flat(i))) - 1
            /\ \A j \in 1..Len(group_builders[i]) :
                   /\ KeyValuesEmitted(i, j) # {} =>
                          /\ sorted_groupers[i][j].ongoing
                          /\ sorted_groupers[i][j].group_value \in KeyValuesSeen(i, j)
                   /\ KeyValuesEmitted(i, j) \subseteq KeyValuesSeen(i, j)

\* after a chunk whose rows were all filtered out, the first chunk with
\* visible rows is being processed: its first row opened the first group, and
\* the one boundary left is the key change after it
C20_Witness ==
    /\ pc[1] = "bound"
    /\ group_key[1] = <<1>>
    /\ Len(input[1]) = 2
    /\ Len(input[1][1].rows) = 1
    /\ cardinality(input[1][1]) = 0
    /\ cardinality(child_chunk[1]) = 2
    /\ groups[1] = <<1>>
    /\ start_row_idx[1] = 0
    /\ Builders(1) = << <<>>, <<>>, <<>> >>

\* ------------------------------------------------------------------- C21
\* the builders hold no value
EmptyBuilders(i) == \A c \in 1..Len(Builders(i)) : Builders(i)[c] = <<>>

\* what the yield of a full batch and the resumption after it leave alone
KeptOverYield(i) ==
    <<sorted_groupers[i], agg_states[i], start_row_idx[i], groups[i],
      child_chunk[i], group_columns[i], no_input_data[i], child[i], input[i]>>

C21_State ==
    \A i \in Insts :
        /\ (InLoop(i) \/ pc[i] = "final") => left_capacity[i] >= 1
        /\ pc[i] = "yielded" =>
              /\ left_capacity[i] = 0
              /\ out[i] # <<>>
              /\ out[i][Len(out[i])] = Batch(Builders(i), output_size_limit[i])

C21_Step ==
    \A i \in Insts :
        \* the emit that uses up the capacity yields in the same step
        /\ (pc[i] \in {"bound", "update"} /\ left_capacity[i] = 1
                /\ Builders(i)' # Builders(i))
              => pc'[i] = "yielded"
        /\ (pc[i] # "yielded" /\ pc'[i] = "yielded") =>
              /\ pc[i] \in {"bound", "update"} /\ left_capacity[i] = 1
              /\ \A c \in 1..Len(Builders(i)) :
                     Len(Builders(i)'[c]) = Len(Builders(i)[c]) + 1
              /\ out'[i] = Append(out[i], Batch(Builders(i)', output_size_limit[i]))
              /\ groups[i] # <<>> /\ groups'[i] = Tail(groups[i])
              /\ child'[i] = child[i] /\ input'[i] = input[i]
        \* the resumption after the yield
        /\ (pc[i] = "yielded" /\ pc'[i] \notin {"yielded", "dropped"}) =>
              /\ pc'[i] = "bound"
              /\ Builders(i)' = create_builders(group_key[i], agg_states[i]).group
                                \o create_builders(group_key[i], agg_states[i]).agg
              /\ EmptyBuilders(i)'
              /\ left_capacity'[i] = output_size_limit[i]
              /\ KeptOverYield(i)' = KeptOverYield(i)
              /\ out'[i] = out[i]

\* C21: when the remaining capacity reaches zero after an emit the batch is
\* yielded in that step, with declared cardinality output_size_limit, before
\* another boundary is processed or another chunk pulled; the execution
\* continues with empty builders and the capacity reset to output_size_limit,
\* and groupers, accumulators and the row cursor are as they were.
C21_YieldWhenFull == []C21_State /\ [][C21_Step]_vars

\* resumed after a yield in the middle of a chunk: empty builders, the whole
\* capacity, the cursor at the boundary of the yielded group, a boundary left
C21_Witness ==
    /\ pc[1] = "bound"
    /\ out[1] # <<>>
    /\ EmptyBuilders(1) /\ Builders(1) # <<>>
    /\ left_capacity[1] = output_size_limit[1]
    /\ start_row_idx[1] > 0
    /\ groups[1] # <<>>

\* ------------------------------------------------------------------- C22
\* the positions of the rows pulled so far whose key differs from the key of
\* the row before
KeyChanges(i) ==
    {p \in 2..Len(Flat(i)) :
        KeyOf(group_key[i], Flat(i)[p]) # KeyOf(group_key[i], Flat(i)[p - 1])}

\* the rows emitted so far, while a batch is being built: the rows of the
\* batches yielded and the rows held in the builders
EmittedRows(i) == OutRows(i) \o RowsOfColumns(Builders(i))

\* C22, at every pull of the child: the rows emitted are the rows of the
\* closed groups, one per key change; the open group is not among them, and
\* it is carried: the groupers hold the key of the last row pulled, the
\* aggregate states the fold over the open group's rows.
C22_State ==
    \A i \in Insts :
        pc[i] = "pull" =>
            LET expected == ExpectedRows(group_key[i], agg_states[i], Flat(i))
            IN /\ Len(EmittedRows(i)) = Cardinality(KeyChanges(i))
               /\ EmittedRows(i) = SubSeq(expected, 1, Len(expected) - 1)
               /\ Flat(i) # <<>> =>
                     /\ \A j \in 1..Len(group_key[i]) :
                            sorted_groupers[i][j] =
                                [ongoing |-> TRUE,
                                 group_value |->
                                     Some(KeyOf(group_key[i],
                                                Flat(i)[Len(Flat(i))])[j])]
                     /\ \A j \in 1..Len(agg_states[i]) :
                            agg_states[i][j].result =
                                FoldOf(agg_states[i][j], Flat(i), OpenRun(i))

\* C22, in every step: at the end of a chunk the rows [start, row_count) are
\* folded, first into the groupers, then into one aggregate state after the
\* other, and nothing is emitted; with no row left nothing is folded; a row
\* is emitted only in the turn over a boundary of a chunk or by the step that
\* finds the child exhausted.
C22_Step ==
    \A i \in Insts :
        /\ (pc[i] = "bound" /\ groups[i] = <<>> /\ pc'[i] # pc[i]) =>
              LET row_cnt == cardinality(child_chunk[i])
              IN /\ Builders(i)' = Builders(i) /\ out'[i] = out[i]
                 /\ agg_states'[i] = agg_states[i]
                 /\ IF start_row_idx[i] < row_cnt
                    THEN /\ pc'[i] = "update"
                         /\ sorted_groupers'[i] =
                               update_sorted_groupers(sorted_groupers[i], group_columns[i],
                                                      start_row_idx[i], row_cnt)
                    ELSE /\ pc'[i] = "pull"
                         /\ sorted_groupers'[i] = sorted_groupers[i]
        /\ (pc[i] = "update" /\ groups[i] = <<>> /\ pc'[i] # "dropped") =>
              /\ Builders(i)' = Builders(i) /\ out'[i] = out[i]
              /\ sorted_groupers'[i] = sorted_groupers[i]
              /\ start_row_idx[i] < cardinality(child_chunk[i])
              /\ agg_states'[i] =
                     [agg_states[i] EXCEPT ![agg_pos[i] + 1] = NextUpdated(i)]
              /\ pc'[i] = (IF agg_pos[i] + 1 = Len(agg_states[i]) THEN "pull"
                           ELSE "update")
        /\ pc'[i] = "pull" => (pc[i] = "pull" \/ groups[i] = <<>>)
        /\ (Builders(i)' # Builders(i) /\ ~EmptyBuilders(i)') =>
              \/ pc[i] \in {"bound", "update"} /\ groups[i] # <<>>
              \/ pc[i] = "pull" /\ child[i] = <<>>

\* C22: the group still open at the end of a chunk is not emitted there: its
\* rows are folded into groupers and aggregate states and carried over, and
\* its row is emitted only at a boundary of a later chunk or when the child
\* is exhausted; at every pull of the child the rows emitted number the key
\* changes seen.
C22_OpenGroupCarried == []C22_State /\ [][C22_Step]_vars

\* a group of two rows is open after a chunk that closed one group, and the
\* child has another chunk
C22_Witness ==
    /\ pc[1] = "pull"
    /\ group_key[1] = <<1>>
    /\ child[1] # <<>>
    /\ Cardinality(KeyChanges(1)) = 1
    /\ Cardinality(OpenRun(1)) = 2
    /\ Len(EmittedRows(1)) = 1

\* ------------------------------------------------------------------- C23
\* C23, in every state of an execution without key column: the boundary list
\* is empty; while the child is being consumed nothing was emitted, nothing
\* yielded and the capacity is the whole output_size_limit; the one group is
\* closed when the child is exhausted, by a batch of one row.
C23_State ==
    \A i \in Insts :
        group_key[i] = <<>> =>
            /\ groups[i] = <<>>
            /\ sorted_groupers[i] = <<>>
            /\ pc[i] \notin {"yielded", "eval"}
            /\ InLoop(i) =>
                  /\ EmptyBuilders(i)
                  /\ out[i] = <<>>
                  /\ left_capacity[i] = output_size_limit[i]
            /\ out[i] # <<>> =>
                  /\ child[i] = <<>>
                  /\ Len(out[i]) = 1
                  /\ out[i][1].card = 1
                  /\ left_capacity[i] = output_size_limit[i]

\* C23, in every step of such an execution: a pulled chunk has no key column
\* and no boundary, whatever its rows; the only step that emits is the one
\* that finds the child exhausted.
C23_Step ==
    \A i \in Insts :
        group_key[i] = <<>> =>
            /\ (pc[i] = "pull" /\ pc'[i] = "bound") =>
                  /\ group_columns'[i] = <<>>
                  /\ detect_all(sorted_groupers[i], group_columns'[i]) = <<>>
                  /\ groups'[i] = <<>>
            /\ (Builders(i)' # Builders(i) /\ ~EmptyBuilders(i)') =>
                  /\ pc[i] = "pull" /\ child[i] = <<>>
                  /\ pc'[i] = "final"

\* C23: with zero key columns the boundary list of every chunk is empty:
\* while the child is consumed no emit happens, no batch is yielded and the
\* remaining capacity stays at output_size_limit; the single group is closed
\* only at the end of the stream.
C23_NoKeyNoBoundary == []C23_State /\ [][C23_Step]_vars

\* the second chunk of an execution without key column is being processed,
\* both chunks having rows, more rows pulled than the limit
C23_Witness ==
    /\ group_key[1] = <<>>
    /\ pc[1] = "bound"
    /\ Len(input[1]) = 2
    /\ cardinality(input[1][1]) > 0 /\ cardinality(child_chunk[1]) > 0
    /\ Len(Flat(1)) > output_size_limit[1]
    /\ out[1] = <<>>

\* ------------------------------------------------------------------- C24
\* key column j of the chunk has at row r (from 0) another value than at the
\* row before; row 0 is compared with the value the grouper carries
ColumnChangesAt(grouper, array, r) ==
    IF r = 0 THEN grouper.ongoing /\ grouper.group_value # Some(array[1])
    ELSE array[r] # array[r + 1]

\* C24, in the step that ends the evaluation of the key columns of a chunk
\* and detects its boundaries: a row index is in the boundary list
\* exactly when at least one key column changes there; the list is ascending
\* without duplicates and is the union of the lists of the key columns.
C24_Detect ==
    \A i \in Insts :
        (pc[i] = "eval" /\ pc'[i] = "bound" /\ group_key[i] # <<>>) =>
            LET cols == group_columns'[i]
                n == cardinality(child_chunk'[i])
                list == groups'[i]
            IN /\ \A r \in 0..(n - 1) :
                      (r \in Range(list)) <=>
                          \E j \in 1..Len(group_key[i]) :
                              ColumnChangesAt(sorted_groupers[i][j], cols[j], r)
               /\ Range(list) \subseteq 0..(n - 1)
               /\ \A k \in 1..(Len(list) - 1) : list[k] < list[k + 1]
               /\ Range(list) =
                      UNION {Range(detect_groups(sorted_groupers[i][j], cols[j])) :
                                j \in 1..Len(group_key[i])}

\* C24, in the step that ends the turn over an entry of the list: one value more in every
\* builder, however many key columns change at the row, and the entries left
\* are larger.
C24_Emit ==
    \A i \in Insts :
        (pc[i] \in {"bound", "update"} /\ groups[i] # <<>>
             /\ pc'[i] \in {"bound", "yielded"}) =>
            /\ \A c \in 1..Len(Builders(i)) :
                   Len(Builders(i)'[c]) = Len(Builders(i)[c]) + 1
            /\ \A k \in 1..Len(groups'[i]) : groups'[i][k] > Head(groups[i])
            /\ start_row_idx'[i] = Head(groups[i])

\* C24: with several key columns a row index is a boundary of the chunk
\* exactly when at least one key column's value differs from the row before
\* (row 0: from the carried values); the combined list is the ascending,
\* duplicate-free union of the columns' lists, so a row at which two key
\* columns change yields one emit.
C24_CombinedBoundaries == [][C24_Detect /\ C24_Emit]_vars

\* with two key columns, the group before a row at which both columns change
\* has just been emitted: one row in the builders, one unit of capacity used
C24_Witness ==
    /\ group_key[1] = <<1, 2>>
    /\ pc[1] = "bound"
    /\ start_row_idx[1] >= 1
    /\ \A j \in 1..2 :
           group_columns[1][j][start_row_idx[1]] # group_columns[1][j][start_row_idx[1] + 1]
    /\ \A c \in 1..Len(Builders(1)) : Len(Builders(1)[c]) = 1
    /\ left_capacity[1] = output_size_limit[1] - 1
    /\ out[1] = <<>>

\* ------------------------------------------------------------------- C25
\* what an execution carries from one chunk to the next
Carried(i) ==
    <<no_input_data[i], sorted_groupers[i], agg_states[i], group_builders[i],
      agg_builders[i], left_capacity[i]>>

\* C25, in every state: a chunk without visible rows has no boundary, and no
\* update is entered for it.
C25_State ==
    \A i \in Insts :
        /\ (pc[i] \in {"eval", "bound"} /\ cardinality(child_chunk[i]) = 0) =>
              groups[i] = <<>>
        /\ pc[i] = "update" => cardinality(child_chunk[i]) > 0

\* C25, in every step: the pull of a chunk without visible rows, the
\* evaluation of its key columns and the step that ends its processing leave
\* the no-input flag, groupers, aggregate states, builders and capacity as
\* they were and yield nothing.
C25_Step ==
    \A i \in Insts :
        /\ (pc[i] = "pull" /\ child'[i] # child[i] /\ cardinality(Head(child[i])) = 0) =>
              /\ pc'[i] = (IF group_key[i] # <<>> THEN "eval" ELSE "bound")
              /\ child_chunk'[i] = compact(Head(child[i]))
              /\ cardinality(child_chunk'[i]) = 0
              /\ Carried(i)' = Carried(i)
              /\ out'[i] = out[i]
        /\ (pc[i] \in {"eval", "bound"} /\ cardinality(child_chunk[i]) = 0) =>
              /\ pc'[i] \in {"eval", "bound", "pull", "dropped"}
              /\ pc[i] = "bound" => pc'[i] \in {"bound", "pull"}
              /\ Carried(i)' = Carried(i)
              /\ out'[i] = out[i]

\* C25: a chunk with zero visible rows does not count as observed input and
\* changes nothing: after it the no-input flag, the carried values of the
\* groupers, the aggregate states, the builders and the remaining capacity
\* are what they were, and no batch is yielded.
C25_EmptyChunkNoEffect == []C25_State /\ [][C25_Step]_vars

\* a chunk whose rows are all filtered out has been processed after a chunk
\* with visible rows that closed a group: flag, groupers and builders are as
\* that chunk left them
C25_Witness ==
    /\ pc[1] = "pull"
    /\ group_key[1] = <<1>>
    /\ Len(input[1]) = 2
    /\ cardinality(input[1][1]) = 2
    /\ Len(input[1][2].rows) > 0 /\ cardinality(input[1][2]) = 0
    /\ ~no_input_data[1]
    /\ sorted_groupers[1][1].ongoing
    /\ Len(RowsOfColumns(Builders(1))) = 1

\* ------------------------------------------------------------------- C26
\* Two executions of the same chunks with the same limit: instance 1 gets the
\* chunks with rows marked invisible, instance 2 the same chunks with those
\* rows removed.
InitMasked ==
    \E gk \in {<<>>, <<1>>}, limit \in 1..MaxLimit, n \in 0..MaxPairRows,
       m \in 0..MaxPairChunks :
        \E ks \in [1..n -> KeyTuples(gk)], vis \in [1..n -> BOOLEAN], c \in Cuts(n, m) :
            LET chunks == Split(RowsWithKeys(ks), vis, c, m)
            IN InitWith([i \in Insts |->
                   IF i = 1
                   THEN Setup(gk, CountSum, limit, chunks, NoFault)
                   ELSE Setup(gk, CountSum, limit,
                              [j \in 1..m |->
                                  AllVisible(VisibleRows(chunks[j].rows, chunks[j].vis))],
                              NoFault)])

SpecMasked == InitMasked /\ [][NextPulled]_vars

\* where an execution is in its code and in its input
Position(i) ==
    <<pc[i], polled[i], Len(input[i]), Len(group_columns[i]), Len(groups[i]),
      start_row_idx[i], agg_pos[i]>>

\* what an execution holds beside its input
Working(i) == <<Carried(i), child_chunk[i], group_columns[i], groups[i], out[i]>>

\* C26: invisible rows take no part in the aggregation: the execution over
\* chunks with rows marked invisible and the execution over the same chunks
\* with those rows removed hold the same flag, groupers, aggregate states,
\* boundaries, builders and output wherever both are at the same place, and
\* yield the same output.
C26_InvisibleAsRemoved ==
    /\ Position(1) = Position(2) => Working(1) = Working(2)
    /\ (pc[1] = "pull" /\ pc[2] = "pull" /\ Len(input[1]) = Len(input[2])) =>
           Working(1) = Working(2)
    /\ (Finished(1) /\ Finished(2)) => out[1] = out[2]
    /\ \A k \in 1..Len(input[1]) :
           k <= Len(input[2]) =>
               /\ input[2][k] = compact(input[1][k])
               /\ cardinality(input[2][k]) = cardinality(input[1][k])

\* both executions have finished with the same batch; the chunk of instance 1
\* has an invisible row whose key differs from the key of its visible row
C26_Witness ==
    /\ Finished(1) /\ Finished(2)
    /\ group_key[1] = <<1>>
    /\ Len(input[1]) = 1
    /\ Len(input[1][1].rows) = 2 /\ cardinality(input[1][1]) = 1
    /\ input[1][1].rows[1][2] # input[1][1].rows[2][2]
    /\ Len(input[2][1].rows) = 1
    /\ out[1] = out[2] /\ Len(out[1]) = 1
    /\ Len(OutRows(1)) = 1

\* ------------------------------------------------------------------- C27
\* groupers and aggregate states after one update over rows [start, end) of
\* the chunk being processed
UpdatedOver(i, start_row, end_row) ==
    [groupers |-> [j \in 1..Len(sorted_groupers[i]) |->
                      grouper_update(sorted_groupers[i][j], group_columns[i][j],
                                     start_row, end_row)],
     states |-> [j \in 1..Len(agg_states[i]) |->
                    update_multi(agg_states[i][j], child_chunk[i], start_row, end_row)]]

\* C27, in every step of an update: all groupers are updated over the range
\* from the row cursor to the boundary (or to the end of the chunk) when the
\* update is entered; cursor and boundary list stay as they are while one
\* aggregate state after the other is updated over that same range; at a
\* boundary the aggregate states are output right after the last one, so the
\* values appended to the builders are those of the states updated over that
\* range.
C27_Step ==
    \A i \in Insts :
        /\ (pc[i] = "bound" /\ pc'[i] = "update") =>
              /\ start_row_idx[i] < EndRow(i)
              /\ sorted_groupers'[i] =
                     UpdatedOver(i, start_row_idx[i], EndRow(i)).groupers
              /\ agg_states'[i] = agg_states[i]
              /\ agg_pos'[i] = 0
              /\ start_row_idx'[i] = start_row_idx[i] /\ groups'[i] = groups[i]
              /\ child_chunk'[i] = child_chunk[i]
        /\ (pc[i] = "bound" /\ pc'[i] # "update") =>
              sorted_groupers'[i] = sorted_groupers[i]
        /\ (pc[i] = "update" /\ pc'[i] # "dropped") =>
              LET k == agg_pos[i] + 1
                  upd == UpdatedOver(i, start_row_idx[i], EndRow(i)).states[k]
              IN /\ sorted_groupers'[i] = sorted_groupers[i]
                 /\ child_chunk'[i] = child_chunk[i]
                 /\ IF k < Len(agg_states[i])
                    THEN /\ pc'[i] = "update"
                         /\ agg_pos'[i] = k
                         /\ agg_states'[i] = [agg_states[i] EXCEPT ![k] = upd]
                         /\ start_row_idx'[i] = start_row_idx[i]
                         /\ groups'[i] = groups[i]
                    ELSE IF groups[i] # <<>>
                    THEN \A j \in 1..Len(agg_states[i]) :
                             agg_builders'[i][j] =
                                 Append(agg_builders[i][j],
                                        IF j < k THEN agg_states[i][j].result
                                        ELSE upd.result)
                    ELSE agg_states'[i] = [agg_states[i] EXCEPT ![k] = upd]

\* the rows a..b pulled so far are what this emitted row (or the open group,
\* as a row) has consumed: the key is that of row b, every aggregate value the
\* fold over a..b
ConsumedBy(i, row, a, b) ==
    /\ \A j \in 1..Len(group_key[i]) :
           row[j] = Some(KeyOf(group_key[i], Flat(i)[b])[j])
    /\ \A j \in 1..Len(agg_states[i]) :
           row[Len(group_key[i]) + j] = FoldOf(agg_states[i][j], Flat(i), a..b)

\* the open group as a row: the carried keys, then the aggregate results
OpenRow(i) ==
    [j \in 1..Len(sorted_groupers[i]) |-> sorted_groupers[i][j].group_value]
    \o [j \in 1..Len(agg_states[i]) |-> agg_states[i][j].result]

\* C27, at every pull, when every update has run to its end: groupers and
\* aggregate states of the open group have consumed the same rows, a range
\* that ends with the last row pulled, and the key and the aggregate values
\* of every emitted row have consumed one and the same range of rows. Inside
\* an update the range is not empty and an aggregate state is still to be
\* updated.
C27_State ==
    \A i \in Insts :
        /\ (pc[i] = "pull" /\ Flat(i) # <<>>) =>
              /\ \E a \in 1..Len(Flat(i)) : ConsumedBy(i, OpenRow(i), a, Len(Flat(i)))
              /\ \A k \in 1..Len(EmittedRows(i)) :
                     \E a \in 1..Len(Flat(i)), b \in 1..Len(Flat(i)) :
                         a <= b /\ ConsumedBy(i, EmittedRows(i)[k], a, b)
        /\ pc[i] = "update" =>
              /\ start_row_idx[i] < EndRow(i)
              /\ agg_pos[i] < Len(agg_states[i])
              /\ \A j \in 1..Len(sorted_groupers[i]) :
                     sorted_groupers[i][j].group_value =
                         Some(group_columns[i][j][EndRow(i)])

\* C27: every update uses one row range for all state: the same [start, end)
\* goes to every grouper and to every aggregate state, so after any update
\* all groupers and all aggregate states have consumed exactly the same rows.
C27_OneRangeForAll == []C27_State /\ [][C27_Step]_vars

\* two groupers and two aggregate states have consumed rows 2 and 3 after the
\* group of row 1 was emitted
C27_Witness ==
    /\ pc[1] = "pull"
    /\ group_key[1] = <<1, 2>>
    /\ Len(Flat(1)) = 3
    /\ Len(EmittedRows(1)) = 1
    /\ ConsumedBy(1, EmittedRows(1)[1], 1, 1)
    /\ ConsumedBy(1, OpenRow(1), 2, 3)
    /\ agg_states[1][1].result = Some(2)
    /\ agg_states[1][2].result = Some(6)

\* ------------------------------------------------------------------- C28
\* C28, in every step: the step that detects the boundaries of a chunk, after
\* the last key column was evaluated, leaves every grouper as it was; a step that changes a grouper is an update over a
\* non-empty range [start, end) of the chunk being processed, and the grouper
\* then carries the value of its key column at the last row of the range,
\* row end - 1.
C28_Step ==
    \A i \in Insts :
        /\ (pc[i] \in {"pull", "eval"} /\ pc'[i] = "bound") =>
              /\ groups'[i] = detect_all(sorted_groupers[i], group_columns'[i])
              /\ sorted_groupers'[i] = sorted_groupers[i]
        /\ pc[i] = "eval" => sorted_groupers'[i] = sorted_groupers[i]
        /\ \A j \in 1..Len(sorted_groupers[i]) :
               sorted_groupers'[i][j] # sorted_groupers[i][j] =>
                   /\ pc[i] = "bound"
                   /\ LET end_row == IF groups[i] # <<>> THEN Head(groups[i])
                                     ELSE cardinality(child_chunk[i])
                      IN /\ start_row_idx[i] < end_row
                         /\ sorted_groupers'[i][j] =
                                [ongoing |-> TRUE,
                                 group_value |->
                                     Some(eval(group_key[i][j], child_chunk[i])[end_row])]
        /\ (pc[i] = "bound" /\ groups[i] # <<>> /\ start_row_idx[i] = Head(groups[i])) =>
               sorted_groupers'[i] = sorted_groupers[i]

\* C28: the detection of the boundaries is pure: detect_groups on the key
\* columns of a chunk leaves the carried last value of every grouper
\* unchanged; the carried value changes only in an update, and only to the
\* key of the last row of the updated range.
C28_DetectIsPure == [][C28_Step]_vars

\* the boundaries of a second chunk were detected against a carried value:
\* row 0 is a boundary and the grouper still carries the key of the chunk
\* before, which is not the key of any row of this chunk
C28_Witness ==
    /\ pc[1] = "bound"
    /\ group_key[1] = <<1>>
    /\ Len(input[1]) = 2
    /\ start_row_idx[1] = 0
    /\ groups[1] # <<>> /\ Head(groups[1]) = 0
    /\ sorted_groupers[1][1].ongoing
    /\ \A r \in 1..Len(group_columns[1][1]) :
           sorted_groupers[1][1].group_value # Some(group_columns[1][1][r])

\* ------------------------------------------------------------------- C29
\* C29, in every state: the generator is inside its loop only while a pull of
\* the consumer is unanswered, and a stream that is over is not being pulled.
C29_State ==
    \A i \in Insts :
        /\ InLoop(i) => polled[i]
        /\ pc[i] \in {"done", "failed", "panicked", "dropped", "idle"} => ~polled[i]

\* C29, in every step: the child is asked for a chunk only during a pull of
\* the consumer; a pull is answered by one batch, one error or the end of the
\* stream, and the answer ends it; while no pull is unanswered the generator
\* takes no step: child, groupers, aggregate states, builders and output stay
\* as they are.
C29_Step ==
    \A i \in Insts :
        /\ (child'[i] # child[i] \/ input'[i] # input[i]) =>
              /\ polled[i] /\ pc[i] = "pull"
              /\ child[i] # <<>>
              /\ child'[i] = Tail(child[i])
              /\ input'[i] = Append(input[i], Head(child[i]))
        /\ out'[i] # out[i] =>
              /\ polled[i] /\ ~polled'[i]
              /\ Len(out'[i]) = Len(out[i]) + 1
              /\ SubSeq(out'[i], 1, Len(out[i])) = out[i]
              /\ pc'[i] \in {"yielded", "final", "failed"}
        /\ (polled[i] /\ ~polled'[i]) =>
              \/ Len(out'[i]) = Len(out[i]) + 1
              \/ out'[i] = out[i] /\ pc'[i] \in {"done", "dropped", "panicked"}
        /\ ~polled[i] =>
              /\ Held(i)' = Held(i)
              /\ pc'[i] \in {pc[i], "dropped"}

\* C29: the execution is driven by the pulls of its consumer: it asks the
\* child for a chunk only while the consumer waits for a batch, every pull is
\* answered by at most one batch, an error or the end of the stream, and
\* after the yield of a batch nothing is pulled, updated or emitted until the
\* consumer pulls again.
C29_PullDriven == []C29_State /\ [][C29_Step]_vars

\* a batch was yielded in the middle of a chunk, boundaries and a chunk of
\* the child are left, and the consumer has not pulled again
C29_Witness ==
    /\ pc[1] = "yielded"
    /\ ~polled[1]
    /\ Len(out[1]) = 1
    /\ groups[1] # <<>>
    /\ child[1] # <<>>

\* ------------------------------------------------------------------- C30
\* the rows pulled are not sorted by the key: a key tuple comes again after
\* another one
KeyReappears(i) ==
    \E p \in 1..Len(Flat(i)), q \in 1..Len(Flat(i)), r \in 1..Len(Flat(i)) :
        /\ p < q /\ q < r
        /\ KeyOf(group_key[i], Flat(i)[p]) = KeyOf(group_key[i], Flat(i)[r])
        /\ KeyOf(group_key[i], Flat(i)[p]) # KeyOf(group_key[i], Flat(i)[q])

\* C30: nothing is sorted again or merged: after a run over an input in which
\* a key tuple comes again after another one, the output has one row per
\* maximal run of equal key tuples, in the order of the runs, so more rows
\* than there are key tuples: a key tuple is in as many output rows as it has
\* runs, and every row holds the fold over the rows of its own run only.
C30_OneRowPerRunUnsorted ==
    \A i \in Insts :
        (Finished(i) /\ group_key[i] # <<>> /\ KeyReappears(i)) =>
            LET starts == SetToSortedSeq(RunStarts(group_key[i], Flat(i)))
            IN /\ Len(OutRows(i)) = Len(starts)
               /\ Len(OutRows(i)) > Cardinality(Range(RunKeys(i)))
               /\ \A key \in Range(RunKeys(i)) :
                      Occurrences(OutKeys(i), key) = Occurrences(RunKeys(i), key)
               /\ \A k \in 1..Len(starts) :
                      OutRows(i)[k] =
                          ExpectedRow(group_key[i], agg_states[i], Flat(i), starts[k])

\* a run over three rows whose first and last have the same key tuple and the
\* middle one another has finished: three output rows, the first and the last
\* with the same key, each with count 1 and the value of its own row
C30_Witness ==
    /\ Finished(1)
    /\ group_key[1] = <<1, 2>>
    /\ Len(Flat(1)) = 3
    /\ KeyReappears(1)
    /\ Len(OutRows(1)) = 3
    /\ OutKeys(1)[1] = OutKeys(1)[3] /\ OutKeys(1)[1] # OutKeys(1)[2]
    /\ OutRows(1)[1][3] = Some(1) /\ OutRows(1)[3][3] = Some(1)
    /\ OutRows(1)[1][4] = Some(1) /\ OutRows(1)[3][4] = Some(4)

\* ------------------------------------------------------------------- C31
\* the number of rows the builders hold: every builder has as many values
RowsHeld(i) == Len(RowsOfColumns(Builders(i)))

\* C31, in every state: at every pull of the child, the one that finds it
\* exhausted included, the capacity is between 1 and output_size_limit and
\* every builder holds output_size_limit - left_capacity values, at most
\* output_size_limit - 1; the assertion before the last output has not
\* failed, and the capacity has not gone below zero (left_capacity is an
\* unsigned integer in the source: the decrement at zero panics or wraps to
\* usize::MAX, which is written -1 here).
C31_State ==
    \A i \in Insts :
        /\ pc[i] # "panicked"
        /\ left_capacity[i] >= 0
        /\ pc[i] = "pull" =>
              /\ output_size_limit[i] >= 1
              /\ 1 <= left_capacity[i] /\ left_capacity[i] <= output_size_limit[i]
              /\ \A c \in 1..Len(Builders(i)) :
                     Len(Builders(i)[c]) = output_size_limit[i] - left_capacity[i]
              /\ RowsHeld(i) <= output_size_limit[i] - 1

\* C31, in every step: the capacity goes down by one at a time, from a value
\* of at least 1, with one more value in every builder; the step that finds
\* the child exhausted passes the assertion.
C31_Step ==
    \A i \in Insts :
        /\ left_capacity'[i] < left_capacity[i] =>
              /\ left_capacity[i] >= 1
              /\ left_capacity'[i] = left_capacity[i] - 1
              /\ \A c \in 1..Len(Builders(i)) :
                     Len(Builders(i)'[c]) = Len(Builders(i)[c]) + 1
        /\ (pc[i] = "pull" /\ child[i] = <<>> /\ pc'[i] # pc[i]) =>
              /\ left_capacity[i] > 0
              /\ pc'[i] \in {"final", "done", "dropped"}

\* C31: for output_size_limit >= 1, at every pull of the child and at the end
\* of the stream 1 <= left_capacity <= output_size_limit and the builders
\* hold output_size_limit - left_capacity rows; so the assertion
\* left_capacity > 0 before the last output never fails and the decrement of
\* left_capacity never underflows.
C31_CapacityBounds == []C31_State /\ [][C31_Step]_vars

\* the child is found exhausted after a full batch was yielded, with one
\* closed group waiting in the builders and one unit of capacity used
C31_Witness ==
    /\ pc[1] = "pull"
    /\ polled[1]
    /\ child[1] = <<>>
    /\ out[1] # <<>>
    /\ output_size_limit[1] >= 2
    /\ left_capacity[1] = output_size_limit[1] - 1
    /\ RowsHeld(1) = 1

\* ------------------------------------------------------------------- C32
\* the value of an aggregate result as a number: a sum over no row counts 0
AsNumber(v) == IF v = None THEN 0 ELSE v[1]

RECURSIVE SumOfSeq(_)
SumOfSeq(s) == IF s = <<>> THEN 0 ELSE Head(s) + SumOfSeq(Tail(s))

\* what aggregate j has taken in so far, over all groups: the values of the
\* emitted rows and the result of the open group
TakenIn(i, j) ==
    SumOfSeq([k \in 1..Len(EmittedRows(i)) |->
                 AsNumber(EmittedRows(i)[k][Len(group_key[i]) + j])])
    + AsNumber(agg_states[i][j].result)

\* the number of visible rows pulled that aggregate state j is past: all rows
\* of the chunks before, and of the chunk being processed the rows
\* [0, start_row_idx), or [0, end) for a state that the running update over
\* [start_row_idx, end) has updated
RowsPassed(i, j) ==
    LET before == Len(Flat(i)) - cardinality(child_chunk[i])
    IN IF pc[i] = "eval" THEN before
       ELSE IF pc[i] = "update"
       THEN before + (IF j <= agg_pos[i] THEN EndRow(i) ELSE start_row_idx[i])
       ELSE IF pc[i] \in {"bound", "yielded"} THEN before + start_row_idx[i]
       ELSE Len(Flat(i))

\* C32, in every state of the processing: the cursor is within the chunk, the
\* boundaries left are ascending and lie between the cursor and the last
\* row; every row an aggregate state is past was folded once and no other
\* row: the counts add up to the number of those rows, the sums to their sum.
C32_State ==
    \A i \in Insts :
        InLoop(i) =>
            /\ pc[i] \in {"bound", "update"} =>
                  /\ 0 <= start_row_idx[i]
                  /\ start_row_idx[i] <= cardinality(child_chunk[i])
                  /\ \A k \in 1..Len(groups[i]) :
                         /\ start_row_idx[i] <= groups[i][k]
                         /\ groups[i][k] < cardinality(child_chunk[i])
                         /\ k > 1 => groups[i][k - 1] < groups[i][k]
            /\ pc[i] = "update" => start_row_idx[i] < EndRow(i)
            /\ \A j \in 1..Len(agg_states[i]) :
                   TakenIn(i, j) =
                       AsNumber(FoldOf(agg_states[i][j], Flat(i), 1..RowsPassed(i, j)))

\* C32, in every step of the processing of a chunk: the first range starts at
\* row 0; the turn over a boundary e passes [start, e) to the updates when it
\* is not empty and ends with the cursor at e, so the next range starts where
\* this one ends; at the end of the chunk [start, row_count) is passed when
\* it is not empty, and the chunk is left only with all its rows passed; the
\* cursor never goes back.
C32_Step ==
    \A i \in Insts :
        /\ (pc[i] \in {"pull", "eval"} /\ pc'[i] = "bound") => start_row_idx'[i] = 0
        /\ (pc[i] = "bound" /\ pc'[i] # pc[i]) =>
              (pc'[i] = "update" <=> start_row_idx[i] < EndRow(i))
        /\ (pc[i] = "bound" /\ pc'[i] = "update") =>
              /\ EndRow(i) <= cardinality(child_chunk[i])
              /\ start_row_idx'[i] = start_row_idx[i]
              /\ group_key[i] # <<>> =>
                     sorted_groupers'[i] =
                         update_sorted_groupers(sorted_groupers[i], group_columns[i],
                                                start_row_idx[i], EndRow(i))
        /\ (pc[i] \in {"bound", "update"} /\ pc'[i] \in {"bound", "yielded"}) =>
              /\ groups[i] # <<>>
              /\ start_row_idx[i] <= EndRow(i)
              /\ start_row_idx'[i] = EndRow(i)
              /\ pc[i] = "bound" => start_row_idx[i] = EndRow(i)
        /\ (pc[i] \in {"bound", "update"} /\ pc'[i] = "pull") =>
              /\ groups[i] = <<>>
              /\ start_row_idx'[i] = start_row_idx[i]
              /\ EndRow(i) = cardinality(child_chunk[i])
              /\ pc[i] = "bound" => start_row_idx[i] = EndRow(i)
        /\ sorted_groupers'[i] # sorted_groupers[i] => start_row_idx[i] < EndRow(i)
        /\ pc[i] \in {"bound", "update", "yielded"} =>
              start_row_idx'[i] >= start_row_idx[i]
        /\ pc[i] = "yielded" => start_row_idx'[i] = start_row_idx[i]

\* C32: every visible row is folded into the aggregate states exactly once:
\* within a chunk the ranges passed to the updates are non-empty, disjoint,
\* ascending, and cover exactly [0, row_count); the cursor start_row_idx
\* never decreases and never exceeds row_count.
C32_EachRowOnce == []C32_State /\ [][C32_Step]_vars

\* in a chunk of three visible rows the cursor stands at the second boundary:
\* two ranges were passed, the third goes to the end of the chunk
C32_Witness ==
    /\ pc[1] = "bound"
    /\ group_key[1] = <<1>>
    /\ cardinality(child_chunk[1]) = 3
    /\ start_row_idx[1] = 2
    /\ groups[1] = <<>>
    /\ Len(EmittedRows(1)) = 2
    /\ TakenIn(1, 1) = 2
    /\ TakenIn(1, 2) = 3

\* ------------------------------------------------------------------- C33
\* C33, in every state: while the no-input flag is up, at the end of the
\* stream in particular, no visible row was pulled, no batch was yielded, no
\* row emitted, the builders are empty, the capacity is the whole
\* output_size_limit, and groupers and aggregate states hold nothing; a
\* grouped stream that ended without output had no visible row.
C33_State ==
    \A i \in Insts :
        /\ pc[i] = "update" => ~no_input_data[i]
        /\ (InLoop(i) /\ no_input_data[i]) =>
              /\ Flat(i) = <<>>
              /\ out[i] = <<>>
              /\ EmptyBuilders(i)
              /\ left_capacity[i] = output_size_limit[i]
              /\ groups[i] = <<>>
              /\ sorted_groupers[i] = create_sorted_groupers(group_key[i])
              /\ \A j \in 1..Len(agg_states[i]) :
                     agg_states[i][j].result = InitialResult(agg_states[i][j].kind)
        /\ (Finished(i) /\ group_key[i] # <<>> /\ out[i] = <<>>) =>
              (no_input_data[i] /\ Flat(i) = <<>>)
        /\ (Finished(i) /\ no_input_data[i]) => Flat(i) = <<>>

\* C33, in every step: a flag that is down stays down, and the flag goes
\* down only with the pull of a chunk that has a visible row.
C33_Step ==
    \A i \in Insts :
        /\ ~no_input_data[i] => ~no_input_data'[i]
        /\ (no_input_data[i] /\ ~no_input_data'[i]) =>
              /\ pc[i] = "pull"
              /\ child[i] # <<>>
              /\ cardinality(Head(child[i])) > 0

\* C33: the suppression of the output of a grouped aggregation without input
\* loses nothing: the no-input flag only goes from true to false, and when it
\* is still true at the end of the stream no batch was yielded, no row
\* emitted, the builders are empty and left_capacity is output_size_limit.
C33_SuppressionLosesNothing == []C33_State /\ [][C33_Step]_vars

\* a grouped execution finds its child exhausted with the flag still up,
\* after a chunk whose rows were all filtered out
C33_Witness ==
    /\ pc[1] = "pull"
    /\ polled[1]
    /\ child[1] = <<>>
    /\ group_key[1] = <<1>>
    /\ no_input_data[1]
    /\ Len(input[1]) = 1
    /\ Len(input[1][1].rows) = 2
    /\ left_capacity[1] = output_size_limit[1]

====
